---- MODULE Spec2Model ----
(***************************************************************************)
(* Verification model of B.E.L.L.A. (content-calendar generator).          *)
(*                                                                         *)
(* Part I   resource governors: ProductionSafety (deployment_main.py) and  *)
(*          UltraSafety (ultra_safe_main.py), request threads interleaved  *)
(*          at every lock acquisition.             SpecGov, SpecExit       *)
(* Part II  text and the deterministic generators: get_fallback_content    *)
(*          and generate_diverse_content.                   SpecPure       *)
(* Part III generate_social_post and the calendar handlers of main.py,     *)
(*          enterprise_main.py and api_routes.py.            SpecGen        *)
(* Part IV  batch generation.                               SpecBatch      *)
(* Part V   the per-day try/except of the form handlers.    SpecLoop       *)
(* Part VI  calendars built from generate_diverse_content.  SpecDiverse    *)
(* Part VII repeated calls of the template generators.      SpecCalls      *)
(* Part VIII the streaming routes /ndjson and /paginate.    SpecStream     *)
(* Part IX  chunk_large_request and the chunk size of                      *)
(*          safe_batch_generation.                          SpecChunk      *)
(* Part X   the template entries of main.py.                SpecMain       *)
(* Part XI  safe_generation_wrapper.                        SpecWrap       *)
(* Part XII the streaming routes /stream and /events.  SpecText, SpecEvents *)
(* Part XIII process_queue_item.                            SpecQueue      *)
(* Part XIV the background job of /api/v1/batch/large.      SpecJob        *)
(* Part XV  track_api_usage and the hourly rate limit.      SpecUsage      *)
(***************************************************************************)
EXTENDS Integers, Sequences, FiniteSets, TLC

VARIABLES
    variant,          \* which application module is running in the process
    active_requests,  \* safety.active_requests of the running variant
    req,              \* per request thread: position, locals and response
    call_args,        \* arguments of a direct call of one of the generators
    call_result,      \* which generator was called and its outcome
    gen,              \* one request of a calendar handler: input, locals, response
    gen_log,          \* history of that request: service outcomes, appends per day
    batch,            \* one call of a batch generator: input, position, records
    loop,             \* one day loop of a calendar builder, with the exceptions it meets
    call_log,         \* the calls of the template generators made so far in the process
    stream,           \* one request of a streaming route: parameters, position, output
    chunking,         \* one call of chunk_large_request: arguments, loop index, chunks
    wrap,             \* CrashPrevention.active_generations and the wrapped calls in progress
    queue,            \* the GenerationQueue rows and the process_queue_item calls in progress
    job,              \* one BatchRequest row and its background thread
    usage             \* the APIUsage rows and one /api/v1/generate/single request

govVars == <<variant, active_requests, req>>

pureVars == <<call_args, call_result>>

genVars == <<gen, gen_log>>

batchVars == <<batch>>

loopVars == <<loop>>

logVars == <<call_log>>

streamVars == <<stream>>

lateVars == <<chunking, wrap, queue, job, usage>>

restVars == <<loop, call_log, stream, lateVars>>

vars == <<variant, active_requests, req, call_args, call_result, gen, gen_log, batch, loop,
          call_log, stream, chunking, wrap, queue, job, usage>>

(***************************************************************************)
(* Part I.  Resource governors                                             *)
(***************************************************************************)

\* ProductionSafety.__init__: self.max_concurrent = 2
max_concurrent == 2

\* UltraSafety.__init__: self.max_requests = 5
max_requests == 5

\* both governed form handlers accept 1..10 days
MaxFormDays == 10

\* request threads beyond the admission bound of the running variant
ExtraRequests == 1

Variants == {"deployment", "ultra"}

AdmissionBound(v) == IF v = "deployment" THEN max_concurrent ELSE max_requests

Requests == 1 .. (AdmissionBound(variant) + ExtraRequests)

AllRequests == 1 .. (max_requests + ExtraRequests + 1)

\* form posts: are niche and city both present, does days parse, its value
FormInputs ==
    { [fields_ok |-> f, days_ok |-> p, days |-> d, raises |-> FALSE] :
        f \in BOOLEAN, p \in BOOLEAN, d \in {0, 1, MaxFormDays + 1} }

\* requests beyond those needed to fill the governor, for the exit paths
ExitExtra == 0

\* deployment needs one request more than max_concurrent for a start_request
\* to lose the race between can_process() and start_request()
ExitRequests ==
    1 .. ((IF variant = "deployment" THEN max_concurrent + 1 ELSE max_requests) + ExitExtra)

\* one form post per exit path: a calendar, each validation error, an exception
ExitInputs ==
    { [fields_ok |-> TRUE, days_ok |-> TRUE, days |-> d, raises |-> FALSE] :
        d \in {0, 1, MaxFormDays + 1} }
    \cup { [fields_ok |-> FALSE, days_ok |-> TRUE, days |-> 1, raises |-> FALSE],
           [fields_ok |-> TRUE, days_ok |-> FALSE, days |-> 1, raises |-> FALSE],
           [fields_ok |-> TRUE, days_ok |-> TRUE, days |-> 1, raises |-> TRUE] }

NoRequest ==
    [pc |-> "idle", route |-> "none", inc |-> FALSE, at_bound |-> FALSE,
     calendar_data |-> <<>>, error_message |-> "none"]

\* the entry appended for one day by the governed handlers (templates only)
SafeEntry(day) == [Day |-> day, kind |-> "template"]

RECURSIVE SafeDayLoop(_, _)
\* for day in range(1, num_days + 1): calendar_data.append(...)
SafeDayLoop(day, num_days) ==
    IF day > num_days THEN <<>>
    ELSE <<SafeEntry(day)>> \o SafeDayLoop(day + 1, num_days)

\* validation of the form followed by the day loop; the pair <<calendar, error>>
\* (in.raises: reading the form raises, the handler's outer except answers)
\* (the three validation messages are one value here: the governor ignores which)
FormBodyResult(in) ==
    IF in.raises THEN <<(<<>>), "unavailable">>
    ELSE IF ~in.fields_ok THEN <<(<<>>), "validation">>
    ELSE IF ~in.days_ok THEN <<(<<>>), "validation">>
    ELSE IF in.days < 1 \/ in.days > MaxFormDays THEN <<(<<>>), "validation">>
    ELSE <<SafeDayLoop(1, in.days), "none">>

\* what a request observes on arrival: the counter stands at the variant's bound
CounterAtBound == active_requests >= AdmissionBound(variant)

---------------------------------------------------------------------------
\* ProductionSafety

Mut_can_process == active_requests <= max_concurrent

can_process == active_requests < max_concurrent

\* start_request: TRUE when the counter was incremented, FALSE when it raises
StartRequestAdmits == ~(active_requests >= max_concurrent)

\* end_request that forgets to give the slot back
Mut_EndRequestValue == active_requests

EndRequestValue == IF active_requests - 1 > 0 THEN active_requests - 1 ELSE 0

\* /generate and /generate-images up to the can_process() test
DeployArrive(r, route) ==
    /\ variant = "deployment"
    /\ req[r].pc = "idle"
    /\ IF can_process
       THEN req' = [req EXCEPT ![r] = [NoRequest EXCEPT !.pc = "checked", !.route = route,
                                           !.at_bound = CounterAtBound]]
       ELSE req' = [req EXCEPT ![r] = [NoRequest EXCEPT !.pc = "done", !.route = route,
                                           !.at_bound = CounterAtBound,
                                           !.error_message = "busy"]]
    /\ UNCHANGED <<variant, active_requests>>

\* try: safety.start_request()
DeployStart(r) ==
    /\ variant = "deployment"
    /\ req[r].pc = "checked"
    /\ IF StartRequestAdmits
       THEN /\ active_requests' = active_requests + 1
            /\ req' = [req EXCEPT ![r].pc = "started", ![r].inc = TRUE]
       ELSE \* "Server busy" raised inside the try block: /generate catches it,
            \* /generate-images lets it propagate; both run the finally clause
            /\ active_requests' = active_requests
            /\ req' = [req EXCEPT ![r].pc = "finally",
                                  ![r].error_message =
                                      IF req[r].route = "generate" THEN "unavailable"
                                      ELSE "http500"]
    /\ UNCHANGED variant

\* the rest of the try block
DeployBody(r, in) ==
    /\ variant = "deployment"
    /\ req[r].pc = "started"
    /\ IF req[r].route = "generate"
       THEN req' = [req EXCEPT ![r].pc = "finally",
                               ![r].calendar_data = FormBodyResult(in)[1],
                               ![r].error_message = FormBodyResult(in)[2]]
       ELSE req' = [req EXCEPT ![r].pc = "finally",
                               ![r].error_message = "images_disabled"]
    /\ UNCHANGED <<variant, active_requests>>

\* finally: safety.end_request()
DeployEnd(r) ==
    /\ variant = "deployment"
    /\ req[r].pc = "finally"
    /\ active_requests' = EndRequestValue
    /\ req' = [req EXCEPT ![r].pc = "done"]
    /\ UNCHANGED variant

---------------------------------------------------------------------------
\* UltraSafety

\* safe_request, under the lock: raise when the counter is at the bound
Mut_SafeRequestAdmits == ~(active_requests > max_requests)

SafeRequestAdmits == ~(active_requests >= max_requests)

SafeRequestExitValue == active_requests - 1

\* with safety.safe_request(): __enter__
UltraEnter(r) ==
    /\ variant = "ultra"
    /\ req[r].pc = "idle"
    /\ IF SafeRequestAdmits
       THEN /\ active_requests' = active_requests + 1
            /\ req' = [req EXCEPT ![r] = [NoRequest EXCEPT !.pc = "body", !.route = "generate",
                                              !.at_bound = CounterAtBound, !.inc = TRUE]]
       ELSE \* raised before the yield: caught by the handler's outer except
            /\ active_requests' = active_requests
            /\ req' = [req EXCEPT ![r] = [NoRequest EXCEPT !.pc = "done", !.route = "generate",
                                              !.at_bound = CounterAtBound,
                                              !.error_message = "unavailable"]]
    /\ UNCHANGED variant

\* the with-block: validation and the day loop (also its early returns)
UltraBody(r, in) ==
    /\ variant = "ultra"
    /\ req[r].pc = "body"
    /\ req' = [req EXCEPT ![r].pc = "exiting",
                          ![r].calendar_data = FormBodyResult(in)[1],
                          ![r].error_message = FormBodyResult(in)[2]]
    /\ UNCHANGED <<variant, active_requests>>

\* safe_request's finally clause, under the lock
UltraExit(r) ==
    /\ variant = "ultra"
    /\ req[r].pc = "exiting"
    /\ active_requests' = SafeRequestExitValue
    /\ req' = [req EXCEPT ![r].pc = "done"]
    /\ UNCHANGED variant

\* the worker thread takes the next request
NextRequest(r) ==
    /\ req[r].pc = "done"
    /\ req' = [req EXCEPT ![r] = NoRequest]
    /\ UNCHANGED <<variant, active_requests>>

\* no generator call is in progress
PureIdle ==
    /\ call_args = [niche |-> <<>>, city |-> <<>>, day |-> 0, used_content |-> {}]
    /\ call_result = [fn |-> "none", out |-> [raised |-> FALSE, value |-> <<>>]]

NoForm == [missing |-> FALSE, niche |-> <<>>, city |-> <<>>, days_ok |-> TRUE, days |-> 0,
           limits_ok |-> TRUE]

NoGen ==
    [handler |-> "none", pc |-> "done", form |-> NoForm, num_days |-> 0, day |-> 0,
     calendar_data |-> <<>>, error_message |-> "none", status |-> 0,
     saved |-> [stored |-> FALSE, data |-> <<>>]]

\* no calendar request is in progress
GenIdle ==
    /\ gen = NoGen
    /\ gen_log = [outcomes |-> <<>>, appended |-> <<>>, svc_calls |-> 0]

NoBatch ==
    [fn |-> "none", pc |-> "done", businesses |-> <<>>, days |-> 0, max_chunk_size |-> 0,
     pos |-> 0, futures |-> <<>>, results |-> <<>>, outcomes |-> <<>>]

\* no batch is being generated
BatchIdle == batch = NoBatch

NoLoop ==
    [caller |-> "none", pc |-> "done", niche |-> <<>>, city |-> <<>>, num_days |-> 0,
     day |-> 0, calendar_data |-> <<>>, appended |-> <<>>, raised |-> <<>>]

NoStream ==
    [route |-> "none", pc |-> "done", page |-> 0, limit |-> 0, ints |-> TRUE, i |-> 0,
     status |-> 0, results |-> <<>>, chunk_size |-> 0, chunk_count |-> 0]

NoChunk ==
    [fn |-> "none", pc |-> "done", total_items |-> 0, chunk_size |-> 1, max_chunk_size |-> 1,
     memory_percent |-> 0, i |-> 0, chunks |-> <<>>]

\* a thread's wrapped call: its position in wrapper(), its generation_id, what
\* the wrapped function does once it runs, and what wrapper() returned
NoCall ==
    [pc |-> "idle", id |-> <<>>, args |-> <<>>, behaviour |-> "none",
     result |-> [kind |-> "none", value |-> <<>>]]

NoWrap == [active_generations |-> {}, calls |-> <<>>]

NoQueue == [items |-> <<>>, calls |-> <<>>]

\* row: the batch_requests row as committed; obj: the BatchRequest object the
\* handler created, which the background thread keeps using
NoJob ==
    [pc |-> "none", total_businesses |-> 0, days |-> 0, row |-> "none", obj |-> "none",
     reported |-> <<>>]

\* rows: the api_usage rows of the last hour per user_id column value; calls:
\* the calls each user made in that hour; last: the latest call and its response
NoUsage ==
    [rows |-> <<>>, calls |-> <<>>,
     last |-> [user_id |-> 0, calls_before |-> 0, status |-> 0, error |-> "none",
               posts_generated |-> 0]]

\* no chunking call, wrapped call, queue worker, background job or API request
LateIdle ==
    /\ chunking = NoChunk
    /\ wrap = NoWrap
    /\ queue = NoQueue
    /\ job = NoJob
    /\ usage = NoUsage

\* no day loop, no generator call and no streaming request is in progress
RestIdle ==
    /\ loop = NoLoop
    /\ call_log = <<>>
    /\ stream = NoStream
    /\ LateIdle

GovInit ==
    /\ variant \in Variants
    /\ active_requests = 0
    /\ req = [r \in AllRequests |-> NoRequest]
    /\ PureIdle
    /\ GenIdle
    /\ BatchIdle
    /\ RestIdle

GovNext ==
    \/ \E r \in Requests, route \in {"generate", "images"} :
          DeployArrive(r, route) /\ UNCHANGED <<pureVars, genVars, batchVars, restVars>>
    \/ \E r \in Requests : DeployStart(r) /\ UNCHANGED <<pureVars, genVars, batchVars, restVars>>
    \/ \E r \in Requests, in \in FormInputs :
          DeployBody(r, in) /\ UNCHANGED <<pureVars, genVars, batchVars, restVars>>
    \/ \E r \in Requests : DeployEnd(r) /\ UNCHANGED <<pureVars, genVars, batchVars, restVars>>
    \/ \E r \in Requests : UltraEnter(r) /\ UNCHANGED <<pureVars, genVars, batchVars, restVars>>
    \/ \E r \in Requests, in \in FormInputs :
          UltraBody(r, in) /\ UNCHANGED <<pureVars, genVars, batchVars, restVars>>
    \/ \E r \in Requests : UltraExit(r) /\ UNCHANGED <<pureVars, genVars, batchVars, restVars>>
    \/ \E r \in Requests : NextRequest(r) /\ UNCHANGED <<pureVars, genVars, batchVars, restVars>>

SpecGov == GovInit /\ [][GovNext]_vars

\* the same governors, with the body also leaving by an exception
ExitNext ==
    \/ \E r \in ExitRequests, route \in {"generate", "images"} :
          DeployArrive(r, route) /\ UNCHANGED <<pureVars, genVars, batchVars, restVars>>
    \/ \E r \in ExitRequests : DeployStart(r) /\ UNCHANGED <<pureVars, genVars, batchVars, restVars>>
    \/ \E r \in ExitRequests, in \in ExitInputs :
          DeployBody(r, in) /\ UNCHANGED <<pureVars, genVars, batchVars, restVars>>
    \/ \E r \in ExitRequests : DeployEnd(r) /\ UNCHANGED <<pureVars, genVars, batchVars, restVars>>
    \/ \E r \in ExitRequests : UltraEnter(r) /\ UNCHANGED <<pureVars, genVars, batchVars, restVars>>
    \/ \E r \in ExitRequests, in \in ExitInputs :
          UltraBody(r, in) /\ UNCHANGED <<pureVars, genVars, batchVars, restVars>>
    \/ \E r \in ExitRequests : UltraExit(r) /\ UNCHANGED <<pureVars, genVars, batchVars, restVars>>
    \/ \E r \in ExitRequests : NextRequest(r) /\ UNCHANGED <<pureVars, genVars, batchVars, restVars>>

SpecExit == GovInit /\ [][ExitNext]_vars

---------------------------------------------------------------------------
\* Claims about the governors (checked under SpecGov)

\* requests between a successful start_request and their own end_request
InFlight == { r \in Requests : req[r].inc /\ req[r].pc \in {"started", "finally"} }

\* C1: in the deployment variant the number of requests between a successful
\* start_request and their own end_request never exceeds max_concurrent = 2.
C1_InFlightAtMostTwo ==
    variant = "deployment" => Cardinality(InFlight) <= max_concurrent

\* C8: a request that arrives while the admission counter is at its bound ends
\* at once (it never holds a position inside the handler), with an error
\* message, an empty calendar and no slot taken.
C8_RejectedAtBound ==
    \A r \in Requests :
        req[r].at_bound =>
            /\ req[r].pc = "done"
            /\ req[r].error_message \in {"busy", "unavailable"}
            /\ req[r].calendar_data = <<>>
            /\ ~req[r].inc

\* both variants reject a request at the bound while others are still running
C8_Witness ==
    \E r \in Requests :
        /\ req[r].at_bound /\ req[r].pc = "done"
        /\ active_requests = AdmissionBound(variant)
        /\ variant = "ultra"

C8_WitnessDeployment ==
    \E r \in Requests :
        /\ req[r].at_bound /\ req[r].pc = "done"
        /\ active_requests = AdmissionBound(variant)
        /\ variant = "deployment"

\* requests inside safe_request: from the increment to the decrement of finally
InsideSafeRequest == { r \in Requests : req[r].pc \in {"body", "exiting"} }

\* C9: in the ultra-safe variant active_requests equals the number of requests
\* inside safe_request, and 0 <= active_requests <= max_requests = 5.
C9_CounterMatchesBody ==
    variant = "ultra" =>
        /\ active_requests = Cardinality(InsideSafeRequest)
        /\ 0 <= active_requests
        /\ active_requests <= max_requests

\* five requests inside, a sixth turned away, and one of the five leaving
C9_Witness ==
    /\ variant = "ultra"
    /\ active_requests = max_requests
    /\ \E r \in Requests : req[r].pc = "done" /\ req[r].at_bound
    /\ \E r \in Requests : req[r].pc = "exiting"

\* C17: in the deployment variant a request whose start_request raised
\* 'Server busy' leaves active_requests as it found it: only a request that
\* incremented the counter decrements it.
C17_RejectedStartKeepsCounter ==
    [][\A r \in Requests :
          (variant = "deployment" /\ req[r].pc = "finally" /\ ~req[r].inc
              /\ req'[r].pc = "done")
          => active_requests' = active_requests]_vars

\* no request holds a slot (C18 is checked under SpecExit)
NoneInFlight ==
    IF variant = "deployment" THEN InFlight = {} ELSE InsideSafeRequest = {}

\* C18: in both variants every admitted request gives its slot back on every
\* exit path (completion, validation error, exception): whenever no request
\* is in flight active_requests is 0 and the next request is admitted.
C18_SlotsReleased ==
    NoneInFlight =>
        /\ active_requests = 0
        /\ IF variant = "deployment" THEN can_process /\ StartRequestAdmits
           ELSE SafeRequestAdmits

\* requests have been admitted and have all left, one of them by an exception,
\* one by a validation error and one after building its calendar
C18_Witness ==
    /\ NoneInFlight
    /\ \E a, b, c \in Requests :
         /\ req[a].pc = "done" /\ req[a].inc /\ req[a].error_message = "unavailable"
         /\ req[b].pc = "done" /\ req[b].inc /\ req[b].error_message = "validation"
         /\ req[c].pc = "done" /\ req[c].inc /\ req[c].calendar_data # <<>>

(***************************************************************************)
(* Part II.  Text and the deterministic generators                         *)
(*                                                                         *)
(* A Python str is a sequence of tokens.  "|", ",", " " and "\n" are       *)
(* tokens of their own; every other token is a run of literal text that    *)
(* holds none of them at its ends.  An f-string is the concatenation of    *)
(* its literal runs and its interpolated values.                           *)
(***************************************************************************)

Pipe == "|"

Sp == <<" ">>

T(text) == <<text>>

RECURSIVE Cat(_)
\* the f-string made of the given parts
Cat(parts) == IF parts = <<>> THEN <<>> ELSE Head(parts) \o Cat(Tail(parts))

\* the positions of sep in s
SepPositions(s, sep) == { i \in 1 .. Len(s) : s[i] = sep }

\* the position of the k-th sep; 0 before the first field, Len(s) + 1 after the last
SepAt(s, sep, k) ==
    LET P == SepPositions(s, sep) IN
    IF k = 0 THEN 0
    ELSE IF k = Cardinality(P) + 1 THEN Len(s) + 1
    ELSE CHOOSE i \in P : Cardinality({ j \in P : j <= i }) = k

\* str.split(sep): always at least one field, "" gives [""]
Split(s, sep) ==
    [ k \in 1 .. (Cardinality(SepPositions(s, sep)) + 1) |->
        SubSeq(s, SepAt(s, sep, k - 1) + 1, SepAt(s, sep, k) - 1) ]

IsSpace(tok) == tok \in {" ", "\n"}

RECURSIVE LStrip(_)
LStrip(s) == IF s # <<>> /\ IsSpace(Head(s)) THEN LStrip(Tail(s)) ELSE s

RECURSIVE RStrip(_)
RStrip(s) ==
    IF s # <<>> /\ IsSpace(s[Len(s)]) THEN RStrip(SubSeq(s, 1, Len(s) - 1)) ELSE s

\* str.strip()
Strip(s) == RStrip(LStrip(s))

RECURSIVE ReplaceTok(_, _, _)
\* str.replace(old, new) for a one-token old; new is a str
ReplaceTok(s, old, new) ==
    IF s = <<>> THEN <<>>
    ELSE (IF Head(s) = old THEN new ELSE <<Head(s)>>) \o ReplaceTok(Tail(s), old, new)

\* s.replace(' ', '')
NoSpaces(s) == ReplaceTok(s, " ", <<>>)

TitleTok(tok) ==
    CASE tok = "hair" -> "Hair"
      [] tok = "nails" -> "Nails"
      [] tok = "pizza" -> "Pizza"
      [] tok = "new" -> "New"
      [] tok = "york" -> "York"
      [] tok = "business" -> "Business"
      [] OTHER -> tok

LowerTok(tok) ==
    CASE tok = "Austin" -> "austin"
      [] tok = "Hair" -> "hair"
      [] tok = "Nails" -> "nails"
      [] tok = "Pizza" -> "pizza"
      [] tok = "New" -> "new"
      [] tok = "York" -> "york"
      [] OTHER -> tok

\* str.title()
Title(s) == [i \in 1 .. Len(s) |-> TitleTok(s[i])]

\* str.lower()
Lower(s) == [i \in 1 .. Len(s) |-> LowerTok(s[i])]

\* str(day)
DayStr(day) == <<ToString(day)>>

\* f"Day {day}"
DayLabel(day) == Cat(<<T("Day"), Sp, DayStr(day)>>)

\* the " | " between the fields of the generators' return strings
Bar == <<" ", Pipe, " ">>

RECURSIVE JoinFields(_)
\* f"{a} | {b} | ..."
JoinFields(fields) ==
    IF Len(fields) = 1 THEN fields[1]
    ELSE fields[1] \o Bar \o JoinFields(Tail(fields))

\* list[i] for a 0-based i >= 0: IndexError when i is past the end
InRange(list, i) == i < Len(list)

At(list, i) == list[i + 1]

\* a call's outcome: it raised, or it returned value
Raised == [raised |-> TRUE, value |-> <<>>]

Returned(v) == [raised |-> FALSE, value |-> v]

\* any(beauty_word in niche.lower() for beauty_word in [...]): the input words
\* that hold one of 'hair', 'nail', 'beauty', 'salon', 'spa', ... as a substring
BeautyWords == {"hair", "nails"}

IsBeauty(niche) == \E i \in 1 .. Len(niche) : Lower(niche)[i] \in BeautyWords

Handle == T("'@salonsuitedigitalstudio'")

---------------------------------------------------------------------------
\* fallback_content.get_fallback_content

base_activities(niche) ==
    << Cat(<<Title(niche), Sp, T("showcase")>>),
       Cat(<<Title(niche), Sp, T("tutorial")>>),
       Cat(<<Title(niche), Sp, T("process video")>>),
       Cat(<<T("Client"), Sp, niche, Sp, T("experience")>>),
       Cat(<<T("Behind-the-scenes"), Sp, niche>>),
       Cat(<<Title(niche), Sp, T("transformation")>>),
       Cat(<<T("Professional"), Sp, niche, Sp, T("work")>>),
       Cat(<<Title(niche), Sp, T("techniques")>>),
       Cat(<<T("Quality"), Sp, niche, Sp, T("service")>>),
       Cat(<<Title(niche), Sp, T("consultation")>>) >>

base_scripts(niche, city) ==
    << Cat(<<T("Experience exceptional"), Sp, niche, Sp, T("quality and service")>>),
       Cat(<<T("See our professional"), Sp, niche, Sp, T("expertise in action")>>),
       Cat(<<T("Your"), Sp, niche, Sp, T("goals are our priority in"), Sp, city>>),
       Cat(<<T("Professional"), Sp, niche, Sp, T("services that exceed expectations")>>),
       Cat(<<T("Behind the scenes of our"), Sp, niche, Sp, T("process")>>),
       Cat(<<T("Transform your"), Sp, niche, Sp, T("experience with our experts")>>),
       Cat(<<T("Quality"), Sp, niche, Sp, T("services you can trust")>>),
       Cat(<<T("Watch our"), Sp, niche, Sp, T("professionals at work")>>),
       Cat(<<T("Exceptional"), Sp, niche, Sp, T("results for"), Sp, city, Sp, T("clients")>>),
       Cat(<<T("Your satisfaction is our"), Sp, niche, Sp, T("mission")>>) >>

base_visuals(niche) ==
    << Cat(<<T("High-quality"), Sp, niche, Sp, T("photography")>>),
       Cat(<<T("Professional"), Sp, niche, Sp, T("video content")>>),
       Cat(<<T("Before and after"), Sp, niche, Sp, T("results")>>),
       T("Process documentation"),
       T("Client satisfaction moments"),
       Cat(<<T("Detail shots of"), Sp, niche, Sp, T("work")>>),
       T("Professional workspace"),
       Cat(<<T("Quality"), Sp, niche, Sp, T("equipment")>>) >>

base_captions(niche, city) ==
    << Cat(<<T("Ready for exceptional"), Sp, niche, Sp, T("service in"), Sp, city,
             T("? We deliver quality results every time!")>>),
       Cat(<<T("Your"), Sp, niche, Sp, T("experience matters to us. Book your"), Sp, city,
             Sp, T("appointment today!")>>),
       Cat(<<T("Excellence in"), Sp, niche, Sp, T("services, right here in"), Sp, city,
             T(". Experience the difference!")>>),
       Cat(<<T("Professional"), Sp, niche, Sp,
             T("solutions tailored for you. Welcome to quality service!")>>),
       Cat(<<T("Transform your"), Sp, niche, Sp, T("needs with our expert team in"), Sp,
             city, T("!")>>) >>

niche_clean(niche) == Title(NoSpaces(niche))

city_clean(city) == Title(NoSpaces(city))

\* " ".join(base_hashtags)
base_hashtags(niche, city) ==
    Cat(<<T("#"), niche_clean(niche), Sp,
          T("#"), city_clean(city), niche_clean(niche), Sp,
          T("#Professional"), niche_clean(niche), Sp,
          T("#"), city_clean(city), T("Business")>>)

fb_times ==
    << T("Morning (9-11am)"), T("Afternoon (2-4pm)"), T("Evening (6-8pm)"),
       T("Peak hours (10am-2pm)"), T("Weekend mornings"), T("Lunch break (12-1pm)"),
       T("After work (5-7pm)"), T("Early evening") >>

fb_ctas ==
    << T("Book your appointment today!"), T("DM us to get started!"),
       T("Call now to schedule!"), T("Visit our website to book!"),
       T("Limited slots available!"), T("Book your consultation!"),
       T("Transform today!"), T("Schedule your session!") >>

fb_prompt(niche, city) ==
    IF IsBeauty(niche)
    THEN Cat(<<T("Professional"), Sp, niche, Sp, T("salon interior in"), Sp, city, Sp,
               T("with modern aesthetic, natural lighting, premium equipment, and"), Sp,
               Handle, Sp,
               T("subtly visible on signage, reflection, or background element")>>)
    ELSE Cat(<<T("Professional"), Sp, niche, Sp, T("business interior in"), Sp, city, Sp,
               T("with modern aesthetic, natural lighting, quality setup, and"), Sp,
               Handle, Sp,
               T("subtly visible on signage, reflection, or background element")>>)

fb_location_hashtags(niche, city) ==
    IF IsBeauty(niche)
    THEN Cat(<<Sp, T("#"), NoSpaces(city), T("Salon"), Sp,
               T("#"), NoSpaces(city), T("Beauty"), Sp,
               T("#Local"), Title(NoSpaces(niche))>>)
    ELSE Cat(<<Sp, T("#"), NoSpaces(city), T("Business"), Sp,
               T("#"), Title(NoSpaces(city)), Title(NoSpaces(niche)), Sp,
               T("#Local"), Title(NoSpaces(niche))>>)

fb_hashtags(niche, city) ==
    Cat(<<base_hashtags(niche, city), Sp, T("#"), NoSpaces(city), T("Local"),
          fb_location_hashtags(niche, city)>>)

\* day_index = (day - 1) % len(template["activities"])
\* a generator that numbers its output by the calls made before it
Mut_get_fallback_content(niche, city, day) == Returned(DayLabel(day + Len(call_log)))

fb_day_index(niche, day) == (day - 1) % Len(base_activities(niche))

\* template["visuals"][day_index]
fb_visual_in_range(niche, day) == InRange(base_visuals(niche), fb_day_index(niche, day))

get_fallback_content(niche, city, day) ==
    LET day_index == fb_day_index(niche, day) IN
    IF ~fb_visual_in_range(niche, day) THEN Raised
    ELSE Returned(JoinFields(<<
            DayLabel(day),
            At(base_activities(niche), day_index),
            At(base_scripts(niche, city), day_index),
            At(base_visuals(niche), day_index),
            At(base_captions(niche, city), day_index % Len(base_captions(niche, city))),
            fb_hashtags(niche, city),
            At(fb_times, day_index % Len(fb_times)),
            At(fb_ctas, day_index % Len(fb_ctas)),
            fb_prompt(niche, city) >>))

---------------------------------------------------------------------------
\* content_diversity.generate_diverse_content

RECURSIVE Prefix(_, _)
\* s[:n], n counted in characters
Prefix(s, n) ==
    IF s = <<>> \/ n <= 0 THEN <<>>
    ELSE IF Len(Head(s)) <= n THEN <<Head(s)>> \o Prefix(Tail(s), n - Len(Head(s)))
    ELSE <<SubSeq(Head(s), 1, n)>>

\* the caller's and the generator's f"{activity.lower()}_{script[:30].lower()}"
Signature(activity, script) == Cat(<<Lower(activity), T("_"), Lower(Prefix(script, 30))>>)

\* content_themes in key order: transformation, education, behind_scenes,
\* client_focus, trends
theme_activities ==
    << << T("Amazing Transformation Tuesday"), T("Makeover Magic"), T("Before & After Reveal"),
          T("Client Glow-Up Story"), T("Confidence Transformation") >>,
       << T("Tutorial Thursday"), T("Technique Breakdown"), T("Pro Tips Friday"),
          T("Educational Content"), T("How-To Guide") >>,
       << T("Behind the Scenes"), T("Day in the Life"), T("Process Video"),
          T("Studio Tour"), T("Artist at Work") >>,
       << T("Client Spotlight"), T("Success Story"), T("Testimonial Feature"),
          T("Happy Client Friday"), T("Client Love") >>,
       << T("Trending Now"), T("Style Forecast"), T("What's Hot"),
          T("Season's Best"), T("Latest Looks") >> >>

theme_scripts(niche, city) ==
    << << Cat(<<T("Watch this incredible"), Sp, niche, Sp, T("transformation in"), Sp, city>>),
          Cat(<<T("From ordinary to extraordinary -"), Sp, niche, Sp, T("magic happens here")>>),
          Cat(<<T("This"), Sp, city, Sp, T("client's transformation will inspire you")>>) >>,
       << Cat(<<T("Learn professional"), Sp, niche, Sp, T("techniques from our"), Sp, city,
                Sp, T("experts")>>),
          Cat(<<T("Master these"), Sp, niche, Sp, T("tips for amazing results")>>),
          Cat(<<T("Behind-the-scenes"), Sp, niche, Sp, T("education")>>) >>,
       << Cat(<<T("See what happens behind the scenes at our"), Sp, city, Sp, T("studio")>>),
          Cat(<<T("A day in the life of"), Sp, niche, Sp, T("professionals")>>),
          Cat(<<T("The artistry behind every"), Sp, niche, Sp, T("service")>>) >>,
       << Cat(<<T("Meet our amazing"), Sp, city, Sp, T("clients and their"), Sp, niche, Sp,
                T("journey")>>),
          Cat(<<T("Nothing makes us happier than satisfied"), Sp, niche, Sp, T("clients")>>),
          Cat(<<T("Client love from the heart of"), Sp, city>>) >>,
       << Cat(<<T("The hottest"), Sp, niche, Sp, T("trends taking over"), Sp, city>>),
          Cat(<<T("Stay ahead with these"), Sp, niche, Sp, T("style predictions")>>),
          Cat(<<T("What's trending in"), Sp, niche, Sp, T("this season")>>) >> >>

\* theme_keys[day % len(theme_keys)], as a 0-based index into the themes
theme_index(day) == day % Len(theme_activities)

MaxRetries == 10

RECURSIVE Mut_DiverseSearch(_, _, _, _, _, _)
\* the retry loop giving up one advance earlier
Mut_DiverseSearch(acts, scripts, ai, si, counter, used_content) ==
    IF Signature(At(acts, ai), At(scripts, si)) \in used_content /\ counter < MaxRetries - 1
    THEN Mut_DiverseSearch(acts, scripts, (ai + 1) % Len(acts), (si + 1) % Len(scripts),
                           counter + 1, used_content)
    ELSE <<ai, si, counter>>

RECURSIVE DiverseSearch(_, _, _, _, _, _)
\* while content_signature in used_content and counter < 10: advance both indices
DiverseSearch(acts, scripts, ai, si, counter, used_content) ==
    IF Signature(At(acts, ai), At(scripts, si)) \in used_content /\ counter < MaxRetries
    THEN DiverseSearch(acts, scripts, (ai + 1) % Len(acts), (si + 1) % Len(scripts),
                       counter + 1, used_content)
    ELSE <<ai, si, counter>>

\* the indices the retry loop ends on, and the number of advances
DiverseChoice(niche, city, day, used_content) ==
    LET acts == At(theme_activities, theme_index(day))
        scripts == At(theme_scripts(niche, city), theme_index(day))
    IN DiverseSearch(acts, scripts, (day - 1) % Len(acts), (day - 1) % Len(scripts),
                     0, used_content)

div_visuals(niche) ==
    << Cat(<<T("High-quality"), Sp, niche, Sp, T("photography")>>),
       Cat(<<T("Professional"), Sp, niche, Sp, T("video content")>>),
       Cat(<<T("Before and after"), Sp, niche, Sp, T("shots")>>),
       T("Process documentation"),
       T("Client reaction captures"),
       Cat(<<T("Detail shots of"), Sp, niche, Sp, T("work")>>),
       T("Studio atmosphere photos"),
       T("Tool and technique displays") >>

div_captions(niche, city) ==
    << Cat(<<T("Ready to elevate your"), Sp, niche, Sp, T("game in"), Sp, city,
             T("? We're here to make it happen!")>>),
       Cat(<<T("Your"), Sp, niche, Sp,
             T("journey starts with the right professionals. Book your"), Sp, city, Sp,
             T("appointment today!")>>),
       Cat(<<T("Excellence in"), Sp, niche, Sp, T("services, right here in"), Sp, city,
             T(". Experience the difference!")>>),
       Cat(<<T("Transform your look, boost your confidence. That's the"), Sp, niche, Sp,
             T("magic we create in"), Sp, city, T("!")>>),
       Cat(<<T("Professional"), Sp, niche, Sp,
             T("services that exceed expectations. Welcome to your"), Sp, city, Sp,
             T("beauty destination!")>>) >>

hashtags_sets(niche, city) ==
    << Cat(<<T("#"), NoSpaces(niche), Sp, T("#"), NoSpaces(city), T("Beauty"), Sp,
             T("#Transform #BookNow")>>),
       Cat(<<T("#"), NoSpaces(niche), T("Goals"), Sp, T("#"), NoSpaces(city), T("Salon"), Sp,
             T("#Professional #BeautyVibes")>>),
       Cat(<<T("#"), NoSpaces(niche), T("Expert"), Sp, T("#"), NoSpaces(city), T("Style"), Sp,
             T("#Confidence #GlowUp")>>),
       Cat(<<T("#"), NoSpaces(niche), T("Art"), Sp, T("#"), NoSpaces(city), T("Beauty"), Sp,
             T("#Precision #Results")>>),
       Cat(<<T("#"), NoSpaces(niche), T("Magic"), Sp, T("#"), NoSpaces(city),
             T("Professionals"), Sp, T("#Excellence #SalonLife")>>) >>

div_times ==
    << T("Peak hours"), T("Morning sessions"), T("Afternoon appointments"),
       T("Evening slots"), T("Weekend availability"), T("Flexible scheduling") >>

div_ctas ==
    << T("Book your transformation!"), T("Schedule today!"), T("Call now!"),
       T("DM to book!"), T("Limited availability!"), T("Transform with us!"),
       T("Your appointment awaits!"), T("Book consultation!") >>

div_prompt(niche, city) ==
    IF IsBeauty(niche)
    THEN Cat(<<T("Professional"), Sp, niche, Sp, T("salon in"), Sp, city,
               T(", modern interior design, natural lighting, happy clients, premium equipment,"),
               Sp, Handle, Sp, T("subtly visible in background or signage")>>)
    ELSE Cat(<<T("Professional"), Sp, niche, Sp, T("business in"), Sp, city,
               T(", modern interior design, natural lighting, satisfied customers, quality equipment,"),
               Sp, Handle, Sp, T("subtly visible in background or signage")>>)

generate_diverse_content(niche, city, day, used_content) ==
    LET choice == DiverseChoice(niche, city, day, used_content) IN
    Returned(JoinFields(<<
        DayLabel(day),
        At(At(theme_activities, theme_index(day)), choice[1]),
        At(At(theme_scripts(niche, city), theme_index(day)), choice[2]),
        At(div_visuals(niche), day % Len(div_visuals(niche))),
        At(div_captions(niche, city), day % Len(div_captions(niche, city))),
        At(hashtags_sets(niche, city), day % Len(hashtags_sets(niche, city))),
        At(div_times, day % Len(div_times)),
        At(div_ctas, day % Len(div_ctas)),
        div_prompt(niche, city) >>))

\* len(text.split("|"))
FieldCount(text) == Len(Split(text, Pipe))

---------------------------------------------------------------------------
\* Direct calls of the two generators                          SpecPure

\* the largest day index a handler passes (num_days <= 30)
MaxDay == 30

PureNiches ==
    { <<"hair">>, <<"pizza">>, <<"hair", ",", " ", "nails">>, <<"cut", Pipe, "color">> }

PureCities == { <<"Austin">>, <<"new", " ", "york">> }

\* every signature the theme of the day can produce
ThemeSignatures(niche, city, day) ==
    LET acts == At(theme_activities, theme_index(day))
        scripts == At(theme_scripts(niche, city), theme_index(day))
    IN { Signature(acts[a], scripts[b]) : a \in 1 .. Len(acts), b \in 1 .. Len(scripts) }

\* the signature generate_diverse_content tries first
FirstSignature(niche, city, day) ==
    LET acts == At(theme_activities, theme_index(day))
        scripts == At(theme_scripts(niche, city), theme_index(day))
    IN Signature(At(acts, (day - 1) % Len(acts)), At(scripts, (day - 1) % Len(scripts)))

\* the signature the retry loop looks at after k advances
CandidateSignature(niche, city, day, k) ==
    LET acts == At(theme_activities, theme_index(day))
        scripts == At(theme_scripts(niche, city), theme_index(day))
    IN Signature(At(acts, (day - 1 + k) % Len(acts)), At(scripts, (day - 1 + k) % Len(scripts)))

\* used_content sets: empty, the first m signatures the loop would look at
\* (m up to one more than the retries), and every signature of the theme
PureUsed(niche, city, day) ==
    { {}, {FirstSignature(niche, city, day)}, ThemeSignatures(niche, city, day) }
    \cup { { CandidateSignature(niche, city, day, k) : k \in 0 .. (m - 1) } :
             m \in 1 .. (MaxRetries + 1) }

GovIdle ==
    /\ variant = "none"
    /\ active_requests = 0
    /\ req = [r \in AllRequests |-> NoRequest]

PureInit ==
    /\ \E n \in PureNiches, c \in PureCities, d \in 1 .. MaxDay :
         \E u \in PureUsed(n, c, d) :
            call_args = [niche |-> n, city |-> c, day |-> d, used_content |-> u]
    /\ call_result = [fn |-> "none", out |-> [raised |-> FALSE, value |-> <<>>]]
    /\ GovIdle
    /\ GenIdle
    /\ BatchIdle
    /\ RestIdle

CallFallback ==
    /\ call_result.fn = "none"
    /\ call_result' =
         [fn |-> "get_fallback_content",
          out |-> get_fallback_content(call_args.niche, call_args.city, call_args.day)]
    /\ UNCHANGED call_args

CallDiverse ==
    /\ call_result.fn = "none"
    /\ call_result' =
         [fn |-> "generate_diverse_content",
          out |-> generate_diverse_content(call_args.niche, call_args.city, call_args.day,
                                           call_args.used_content)]
    /\ UNCHANGED call_args

PureNext ==
    \/ CallFallback /\ UNCHANGED <<govVars, genVars, batchVars, restVars>>
    \/ CallDiverse /\ UNCHANGED <<govVars, genVars, batchVars, restVars>>

SpecPure == PureInit /\ [][PureNext]_vars

\* C3: get_fallback_content and generate_diverse_content each return, without
\* raising, a string of exactly 9 pipe-delimited fields, for every niche, city
\* and day 1..30 (stated for niche and city strings that hold no "|" themselves).
C3_NineFieldsNoRaise ==
    (/\ call_result.fn # "none"
     /\ Pipe \notin {call_args.niche[i] : i \in 1 .. Len(call_args.niche)}) =>
        /\ ~call_result.out.raised
        /\ FieldCount(call_result.out.value) = 9

\* the signature generate_diverse_content ends on, and the advances it made
ReturnedSignature ==
    LET choice == DiverseChoice(call_args.niche, call_args.city, call_args.day,
                                call_args.used_content)
        acts == At(theme_activities, theme_index(call_args.day))
        scripts == At(theme_scripts(call_args.niche, call_args.city), theme_index(call_args.day))
    IN [signature |-> Signature(At(acts, choice[1]), At(scripts, choice[2])),
        counter |-> choice[3]]

C13_WitnessGaveUp ==
    /\ call_result.fn = "generate_diverse_content"
    /\ ReturnedSignature.counter = 10
    /\ ReturnedSignature.signature \in call_args.used_content

(***************************************************************************)
(* Part III.  The generation pipeline: ssds_ai.generate_social_post and    *)
(* the request handlers of main.py, enterprise_main.py and api_routes.py   *)
(***************************************************************************)

\* the fields the external service writes, after its Day field
AiFields ==
    << T("AI activity"), T("AI script"), T("AI visual"), T("AI caption"),
       T("AI hashtags"), T("AI time"), T("AI cta"), T("AI prompt"), T("AI extra") >>

\* tokens only the service's response holds
AiTokens == { AiFields[i][1] : i \in 1 .. Len(AiFields) } \cup {"AI day"}

\* a response text of k >= 1 fields whose first field is label
SvcText(k, label) == JoinFields(<<label>> \o SubSeq(AiFields, 1, k - 1))

\* field counts of the response texts tried
SvcFieldCounts == {3, 7, 9}

\* response.choices[0].message.content of one call for the given day: None or
\* "", blank, or a text; the text names the day asked for or not
SvcContents(day) ==
    { <<>>, <<" ">> }
    \cup { SvcText(k, DayLabel(day)) : k \in SvcFieldCounts }
    \cup { SvcText(9, T("AI day")) }

\* what client.chat.completions.create does on one call
ServiceOutcomes(day) ==
    { [kind |-> "timeout", content |-> <<>>], [kind |-> "exception", content |-> <<>>] }
    \cup { [kind |-> "response", content |-> c] : c \in SvcContents(day) }

\* the service is down: every call raises
ServiceDown == { [kind |-> "exception", content |-> <<>>] }

\* ssds_ai.get_live_trends(...)["hashtags"]
trend_hashtags(primary_niche) ==
    CASE Lower(primary_niche) = <<"hair">> ->
            T("#HairTransformation #HairGoals #SalonLife #HairTrends #BeautyTok")
      [] Lower(primary_niche) = <<"nails">> ->
            T("#NailArt #NailGoals #SalonNails #NailTrends #BeautyVibes")
      [] OTHER ->
            T("#SmallBusiness #Entrepreneur #LocalBusiness #Success #Growth")

\* niche.split(',')[0].strip() if ',' in niche else niche
primary_niche(niche) ==
    IF \E i \in 1 .. Len(niche) : niche[i] = "," THEN Strip(Split(niche, ",")[1]) ELSE niche

\* the "ultimate emergency content" of generate_social_post
ultimate_emergency(niche, city, day) ==
    JoinFields(<<
        DayLabel(day),
        T("Professional Content"),
        Cat(<<T("Engaging"), Sp, niche, Sp, T("content")>>),
        T("High-quality visuals"),
        Cat(<<T("Professional"), Sp, niche, Sp, T("content for"), Sp, city>>),
        trend_hashtags(primary_niche(niche)),
        T("Peak hours"),
        T("Book today"),
        T("Professional marketing image with @salonsuitedigitalstudio visible") >>)

\* ssds_ai.generate_social_post for one outcome of the service call
generate_social_post(niche, city, day, outcome) ==
    LET fallback_post == get_fallback_content(niche, city, day) IN
    IF fallback_post.raised
    THEN Returned(ultimate_emergency(niche, city, day))
    ELSE IF outcome.kind \in {"timeout", "exception"}
    THEN Returned(fallback_post.value)
    ELSE IF outcome.content # <<>>
    THEN Returned(Strip(outcome.content))
    ELSE Returned(fallback_post.value)

---------------------------------------------------------------------------
\* main.generate_calendar, one iteration of the day loop

main_activities ==
    << T("Behind the Scenes"), T("Client Testimonial"), T("Before & After"),
       T("Educational Tip"), T("Team Spotlight"), T("Product Feature"),
       T("Service Highlight") >>

main_scripts(niche, city) ==
    << Cat(<<T("See what makes our"), Sp, niche, Sp, T("special in"), Sp, city>>),
       Cat(<<T("Happy clients are our priority in"), Sp, city>>),
       Cat(<<T("Professional"), Sp, niche, Sp, T("services you can trust in"), Sp, city>>),
       Cat(<<T("Quality"), Sp, niche, Sp, T("experience in"), Sp, city>>),
       Cat(<<T("Your local"), Sp, niche, Sp, T("experts in"), Sp, city>>),
       Cat(<<T("Excellence in"), Sp, niche, Sp, T("services in"), Sp, city>>),
       Cat(<<T("Transform your look with our"), Sp, niche, Sp, T("in"), Sp, city>>) >>

main_times ==
    << T("Morning (9-11am)"), T("Afternoon (2-4pm)"), T("Evening (6-8pm)"),
       T("Peak hours"), T("Lunch break"), T("Weekend") >>

main_ctas ==
    << T("Book now"), T("Call today"), T("DM us"), T("Visit our website"),
       T("Schedule consultation"), T("Get started") >>

\* f"#{niche.split(',')[0].replace(' ', '')} #{city.replace(' ', '')}"
default_hashtags(niche, city) ==
    Cat(<<T("#"), NoSpaces(Split(niche, ",")[1]), Sp, T("#"), NoSpaces(city)>>)

\* the "guaranteed safe content" string of main.py
main_safe_post(niche, city, day) ==
    LET script == At(main_scripts(niche, city), (day - 1) % Len(main_scripts(niche, city))) IN
    JoinFields(<<
        DayLabel(day),
        At(main_activities, (day - 1) % Len(main_activities)),
        script,
        Cat(<<T("Professional"), Sp, niche, Sp, T("content")>>),
        Cat(<<script, Sp, T("Book your appointment today!")>>),
        Cat(<<default_hashtags(niche, city), Sp, T("#Professional #Local")>>),
        At(main_times, (day - 1) % Len(main_times)),
        At(main_ctas, (day - 1) % Len(main_ctas)),
        Cat(<<T("Professional"), Sp, niche, Sp, T("business in"), Sp, city,
              T(", modern setup,"), Sp, Handle, Sp, T("visible")>>) >>)

\* the largest num_days for which main.py calls the service
MainAiDays == 7

\* below this field count main.py and enterprise_main.py discard the post
MinFields == 6

\* the field count of a complete record
NumFields == 9

\* post after "if num_days <= 7: post = generate_social_post(...)" and the
\* replacement of a missing or short post
main_post(niche, city, day, num_days, outcome) ==
    LET post == IF num_days <= MainAiDays
                THEN generate_social_post(niche, city, day, outcome).value
                ELSE <<>>
    IN IF post = <<>> \/ FieldCount(post) < MinFields
       THEN main_safe_post(niche, city, day)
       ELSE post

\* [p.strip().replace("\n", " ") for p in post.strip().split("|")]
main_parts(post) ==
    LET fields == Split(Strip(post), Pipe) IN
    [ i \in 1 .. Len(fields) |-> ReplaceTok(Strip(fields[i]), "\n", Sp) ]

\* calendar_entry of main.py: parts[i] if len(parts) > i else a default
main_entry(parts, niche, city, day) ==
    [ Day |-> IF Len(parts) > 0 THEN parts[1] ELSE DayLabel(day),
      Activity |-> IF Len(parts) > 1 THEN parts[2] ELSE T("Social media post"),
      Script |-> IF Len(parts) > 2 THEN parts[3]
                 ELSE Cat(<<T("Professional"), Sp, niche, Sp, T("content")>>),
      Visual |-> IF Len(parts) > 3 THEN parts[4] ELSE T("Professional visual"),
      Caption |-> IF Len(parts) > 4 THEN parts[5]
                  ELSE Cat(<<T("Quality"), Sp, niche, Sp, T("in"), Sp, city>>),
      Hashtags |-> IF Len(parts) > 5 THEN parts[6] ELSE default_hashtags(niche, city),
      Time |-> IF Len(parts) > 6 THEN parts[7] ELSE T("Peak hours"),
      CTA |-> IF Len(parts) > 7 THEN parts[8] ELSE T("Book now"),
      Prompt |-> IF Len(parts) > 8 THEN parts[9]
                 ELSE Cat(<<T("Professional"), Sp, niche, Sp, T("business in"), Sp, city>>) ]

\* the entries one iteration of main.py's day loop appends
main_day(niche, city, day, num_days, outcome, calendar_data) ==
    << main_entry(main_parts(main_post(niche, city, day, num_days, outcome)),
                  niche, city, day) >>

---------------------------------------------------------------------------
\* enterprise_main.generate_calendar and api_routes.generate_single_calendar,
\* one iteration of the day loop

\* item.get(key, '')
Get(item, key) == IF key \in DOMAIN item THEN item[key] ELSE <<>>

\* {f"{item.get('Activity', '').lower()}_{item.get('Script', '')[:30].lower()}"
\*  for item in calendar_data}
used_signatures(calendar_data) ==
    { Signature(Get(calendar_data[i], "Activity"), Get(calendar_data[i], "Script")) :
        i \in 1 .. Len(calendar_data) }

\* post after "if not post or len(post.split("|")) < 6: post = generate_diverse_content(...)"
enterprise_post(niche, city, day, outcome, calendar_data) ==
    LET post == generate_social_post(niche, city, day, outcome).value IN
    IF post = <<>> \/ FieldCount(post) < MinFields
    THEN generate_diverse_content(niche, city, day, used_signatures(calendar_data)).value
    ELSE post

\* post_data of enterprise_main.generate_calendar
enterprise_entry(fields, day) ==
    ("Day" :> day) @@ ("Activity" :> Strip(fields[2])) @@ ("Script" :> Strip(fields[3]))
    @@ ("Visual" :> Strip(fields[4])) @@ ("Caption" :> Strip(fields[5]))
    @@ ("Hashtags" :> Strip(fields[6])) @@ ("Time" :> Strip(fields[7]))
    @@ ("CTA" :> Strip(fields[8])) @@ ("AI Image Prompt" :> Strip(fields[9]))

\* the entries one iteration of the enterprise form handler's loop appends
enterprise_day(niche, city, day, num_days, outcome, calendar_data) ==
    LET fields == Split(enterprise_post(niche, city, day, outcome, calendar_data), Pipe) IN
    IF Len(fields) >= NumFields THEN <<enterprise_entry(fields, day)>> ELSE <<>>

\* post_data of api_routes.generate_single_calendar
api_entry(fields, day) ==
    [ day |-> day, activity |-> Strip(fields[2]), script |-> Strip(fields[3]),
      visual |-> Strip(fields[4]), caption |-> Strip(fields[5]),
      hashtags |-> Strip(fields[6]), time |-> Strip(fields[7]), cta |-> Strip(fields[8]),
      ai_prompt |-> Strip(fields[9]) ]

\* the entries one iteration of the JSON handler's loop appends
api_day(niche, city, day, num_days, outcome, calendar_data) ==
    LET post == generate_social_post(niche, city, day, outcome).value
        fields == Split(post, Pipe)
    IN IF post # <<>> /\ Len(fields) >= NumFields THEN <<api_entry(fields, day)>> ELSE <<>>

---------------------------------------------------------------------------
\* The three handlers as one request each                         SpecGen

Handlers == {"main", "enterprise", "api"}

\* the largest day count the form handlers accept, and the API's cap
MaxRequestDays == 30

\* day counts of the runs on which every service outcome is tried for every day
MaxGenDays == 2

\* calls the service answers before it goes down for the rest of the request
MaxSvcResponses == 2

GenNiches == { <<"hair">>, <<"hair", ",", " ", "nails">> }

GenCities == { <<"Austin">> }

DaysInputs == {-1, 0} \cup (1 .. MaxGenDays) \cup {MainAiDays + 1, MaxRequestDays + 1}

\* a request: a required field missing or empty, the niche and city given, does
\* days parse as an integer and its value, do the API's quota and rate checks pass
GenForms ==
    { [missing |-> m, niche |-> n, city |-> c, days_ok |-> p, days |-> d, limits_ok |-> q] :
        m \in BOOLEAN, n \in GenNiches, c \in GenCities, p \in BOOLEAN, d \in DaysInputs,
        q \in BOOLEAN }

Min(a, b) == IF a < b THEN a ELSE b

Rejected(error, status) ==
    [accepted |-> FALSE, num_days |-> 0, error_message |-> error, status |-> status]

Accepted(num_days) ==
    [accepted |-> TRUE, num_days |-> num_days, error_message |-> "none", status |-> 200]

\* main.generate_calendar up to the day loop
main_validate(form) ==
    IF form.missing THEN Rejected("validation", 200)
    ELSE IF ~form.days_ok THEN Rejected("validation", 200)
    ELSE IF form.days < 1 \/ form.days > MaxRequestDays THEN Rejected("validation", 200)
    ELSE Accepted(Min(form.days, MaxRequestDays))

\* enterprise_main.generate_calendar up to the day loop
enterprise_validate(form) ==
    IF form.missing THEN Rejected("validation", 200)
    ELSE IF ~form.days_ok THEN Rejected("validation", 200)
    ELSE IF form.days <= 0 \/ form.days > MaxRequestDays THEN Rejected("validation", 200)
    ELSE Accepted(form.days)

\* api_routes.generate_single_calendar up to the day loop
api_validate(form) ==
    IF form.missing THEN Rejected("validation", 400)
    ELSE IF ~form.days_ok THEN Rejected("internal", 500)
    ELSE IF ~form.limits_ok THEN Rejected("limit", 429)
    ELSE Accepted(Min(form.days, MaxRequestDays))

Validate(handler, form) ==
    CASE handler = "main" -> main_validate(form)
      [] handler = "enterprise" -> enterprise_validate(form)
      [] handler = "api" -> api_validate(form)

\* is the external service called on this iteration
CallsService(handler, num_days) == handler # "main" \/ num_days <= MainAiDays

NotCalled == [kind |-> "not_called", content |-> <<>>]

DayEntries(handler, niche, city, day, num_days, outcome, calendar_data) ==
    CASE handler = "main" -> main_day(niche, city, day, num_days, outcome, calendar_data)
      [] handler = "enterprise" ->
            enterprise_day(niche, city, day, num_days, outcome, calendar_data)
      [] handler = "api" -> api_day(niche, city, day, num_days, outcome, calendar_data)

GenInit ==
    /\ \E h \in Handlers, f \in GenForms :
         gen = [NoGen EXCEPT !.handler = h, !.pc = "received", !.form = f]
    /\ gen_log = [outcomes |-> <<>>, appended |-> <<>>, svc_calls |-> 0]
    /\ GovIdle
    /\ PureIdle
    /\ BatchIdle
    /\ RestIdle

\* the handler reads and validates the request
GenValidate ==
    /\ gen.pc = "received"
    /\ LET v == Validate(gen.handler, gen.form) IN
       gen' = [gen EXCEPT !.pc = IF v.accepted THEN "loop" ELSE "done",
                          !.num_days = v.num_days, !.day = 1,
                          !.error_message = v.error_message, !.status = v.status]
    /\ UNCHANGED gen_log

\* one iteration of "for day in range(1, num_days + 1)"
GenDay ==
    /\ gen.pc = "loop"
    /\ gen.day <= gen.num_days
    /\ \E outcome \in (IF ~CallsService(gen.handler, gen.num_days) THEN {NotCalled}
                       ELSE IF gen_log.svc_calls >= MaxSvcResponses THEN ServiceDown
                       ELSE ServiceOutcomes(gen.day)) :
         LET new == DayEntries(gen.handler, gen.form.niche, gen.form.city, gen.day,
                               gen.num_days, outcome, gen.calendar_data)
         IN /\ gen' = [gen EXCEPT !.calendar_data = @ \o new, !.day = @ + 1]
            /\ gen_log' =
                 [outcomes |-> Append(gen_log.outcomes, outcome),
                  appended |-> gen_log.appended \o [i \in 1 .. Len(new) |-> gen.day],
                  svc_calls |-> IF outcome.kind = "not_called" \/ gen_log.svc_calls >= MaxSvcResponses
                                THEN gen_log.svc_calls ELSE gen_log.svc_calls + 1]

\* after the loop: the table, the stored calendar, the response
GenFinish ==
    /\ gen.pc = "loop"
    /\ gen.day > gen.num_days
    /\ gen' =
         [gen EXCEPT
            !.pc = "done",
            !.error_message =
                IF gen.handler # "api" /\ gen.calendar_data = <<>> THEN "no_content" ELSE "none",
            !.saved =
                IF gen.handler = "api" \/ (gen.handler = "enterprise" /\ gen.calendar_data # <<>>)
                THEN [stored |-> TRUE, data |-> gen.calendar_data]
                ELSE [stored |-> FALSE, data |-> <<>>]]
    /\ UNCHANGED gen_log

GenNext ==
    \/ GenValidate /\ UNCHANGED <<govVars, pureVars, batchVars, restVars>>
    \/ GenDay /\ UNCHANGED <<govVars, pureVars, batchVars, restVars>>
    \/ GenFinish /\ UNCHANGED <<govVars, pureVars, batchVars, restVars>>

SpecGen == GenInit /\ [][GenNext]_vars

---------------------------------------------------------------------------
\* Claims about the generation pipeline (checked under SpecGen)

\* the day number an entry shows, 0 when its Day field names no day
EntryDay(e) ==
    IF "day" \in DOMAIN e THEN e["day"]
    ELSE IF gen.handler = "enterprise" THEN e["Day"]
    ELSE IF \E d \in 1 .. MaxRequestDays : e["Day"] = DayLabel(d)
         THEN CHOOSE d \in 1 .. MaxRequestDays : e["Day"] = DayLabel(d)
         ELSE 0

\* the text fields of an entry
TextKeys(e) == { k \in DOMAIN e : ~(k = "day" \/ (k = "Day" /\ gen.handler = "enterprise")) }

\* no token of the service's response appears in the entry
AiFree(e) == \A k \in TextKeys(e) : \A i \in 1 .. Len(e[k]) : e[k][i] \notin AiTokens

\* the positions of the entries appended while day d was processed
EntriesOf(d) == { j \in 1 .. Len(gen_log.appended) : gen_log.appended[j] = d }

\* every text the service returned names the day it was asked for
LabelsRight ==
    \A i \in 1 .. Len(gen_log.outcomes) :
        gen_log.outcomes[i].content # SvcText(9, T("AI day"))

\* the days processed so far on which the service was called
CalledDays == { i \in 1 .. Len(gen_log.outcomes) : gen_log.outcomes[i].kind # "not_called" }

\* what generate_social_post returned on day i
PostOf(i) == generate_social_post(gen.form.niche, gen.form.city, i, gen_log.outcomes[i])

\* C2: for a request of N days the finished calendar of main.py's and
\* enterprise_main.py's form handler has exactly N entries with day numbers
\* 1..N in order, whatever the service returned (stated for service texts that
\* name the day asked for).
C2_CalendarHasDays1toN ==
    (gen.pc = "done" /\ gen.handler \in {"main", "enterprise"} /\ LabelsRight) =>
        /\ Len(gen.calendar_data) = gen.num_days
        /\ \A i \in 1 .. Len(gen.calendar_data) : EntryDay(gen.calendar_data[i]) = i

\* C4: generate_social_post never raises and always returns a non-empty string
\* of exactly 9 pipe-delimited fields, for every outcome of the service and of
\* the fallback template function.
C4_SocialPostNineFields ==
    \A i \in CalledDays :
        /\ ~PostOf(i).raised
        /\ PostOf(i).value # <<>>
        /\ FieldCount(PostOf(i).value) = NumFields

\* the service timed out, raised, or returned text of fewer than 9 fields
ServiceFailed(outcome) ==
    \/ outcome.kind \in {"timeout", "exception"}
    \/ outcome.kind = "response" /\ FieldCount(Strip(outcome.content)) < NumFields

\* C5: whenever the service times out, raises or returns fewer than 9 fields,
\* the entry of that day (form handlers of main.py and enterprise_main.py) is
\* built from the deterministic fallback and holds no part of the response.
C5_FailedServiceGivesFallback ==
    gen.handler \in {"main", "enterprise"} =>
        \A i \in CalledDays :
            ServiceFailed(gen_log.outcomes[i]) =>
                /\ EntriesOf(i) # {}
                /\ \A j \in EntriesOf(i) : AiFree(gen.calendar_data[j])

\* C6: a record of fewer than 9 fields handed to the parser/assembler (the
\* three handlers) is not dropped: exactly one entry with all 9 keys is
\* appended for it, the missing fields filled with defaults.
C6_ShortRecordPadded ==
    \A i \in CalledDays :
        FieldCount(PostOf(i).value) < NumFields =>
            /\ Cardinality(EntriesOf(i)) = 1
            /\ \A j \in EntriesOf(i) : Cardinality(DOMAIN gen.calendar_data[j]) = NumFields

\* the request gives niche, city and an integer day count outside 1..30
DaysOutOfRange ==
    /\ ~gen.form.missing /\ gen.form.days_ok /\ gen.form.limits_ok
    /\ (gen.form.days < 1 \/ gen.form.days > MaxRequestDays)

\* C7: a day count outside [1,30] yields a validation error in each of the
\* three handlers, and no calendar entry is produced or stored.
C7_OutOfRangeRejected ==
    (DaysOutOfRange /\ gen.pc # "received") =>
        /\ gen.pc = "done"
        /\ gen.error_message = "validation"
        /\ gen.calendar_data = <<>>
        /\ ~gen.saved.stored

(***************************************************************************)
(* Part IV.  Batch generation: enterprise_main.process_batch_request,      *)
(* crash_prevention.safe_batch_generation and                              *)
(* performance_optimizer._process_business_chunk.                          *)
(***************************************************************************)

BatchFns == {"process_batch_request", "safe_batch_generation", "_process_business_chunk"}

\* largest number of businesses in one batch
MaxBusinesses == 4

\* a business of the request body: a dict with both keys, a dict without
\* 'niche', or a JSON value that is no dict
BusinessKinds == {"dict", "no_niche", "not_dict"}

BatchNiche == T("hair")

BatchCity == T("Austin")

\* 10 is the most the /batch-generate route passes on: min(int(data['days']), 10)
BatchDays == {1, 2, 10}

\* the chunk sizes safe_batch_generation settles on from the memory reading
ChunkSizes == {3, 5}

BusinessLists ==
    UNION { { [i \in 1 .. n |-> [id |-> i, kind |-> k[i]]] : k \in [1 .. n -> BusinessKinds] } :
            n \in 0 .. MaxBusinesses }

\* what the service does on every call made for one business
BatchOutcomes == ServiceDown \cup { [kind |-> "response", content |-> SvcText(7, DayLabel(1))] }

\* business.get(key, default)
BusinessGet(business, key, default) ==
    IF business.kind = "not_dict" THEN Raised
    ELSE IF key = "niche" /\ business.kind = "no_niche" THEN Returned(default)
    ELSE Returned(IF key = "niche" THEN BatchNiche ELSE BatchCity)

\* business[key]
BusinessItem(business, key) ==
    IF business.kind = "not_dict" \/ (key = "niche" /\ business.kind = "no_niche") THEN Raised
    ELSE Returned(IF key = "niche" THEN BatchNiche ELSE BatchCity)

\* crash_prevention.chunk_large_request: the (start, end) pairs, 0-based, end excluded
chunk_large_request(total_items, chunk_size) ==
    [c \in 1 .. ((total_items + chunk_size - 1) \div chunk_size) |->
        <<(c - 1) * chunk_size, Min((c - 1) * chunk_size + chunk_size, total_items)>>]

\* 1-based positions of businesses[chunk_start:chunk_end]
ChunkSlice(chunk) == [i \in 1 .. (chunk[2] - chunk[1]) |-> chunk[1] + i]

RECURSIVE ChunkOrder(_, _)
\* the order in which the chunks' businesses are visited, from chunk c on
ChunkOrder(chunks, c) ==
    IF c > Len(chunks) THEN <<>> ELSE ChunkSlice(chunks[c]) \o ChunkOrder(chunks, c + 1)

\* the days safe_batch_generation loops over: range(1, min(days + 1, 10))
safe_batch_days(days) == Min(days + 1, 10) - 1

\* the entries one iteration of a batch day loop appends
batch_day(fn, niche, city, day, outcome, calendar_data) ==
    IF fn = "process_batch_request"
    THEN api_day(niche, city, day, day, outcome, calendar_data)
    ELSE LET post == enterprise_post(niche, city, day, outcome, calendar_data)
             fields == Split(post, Pipe)
         IN IF post # <<>> /\ Len(fields) >= NumFields THEN <<api_entry(fields, day)>> ELSE <<>>

RECURSIVE batch_calendar(_, _, _, _, _)
\* calendar_data after the day loop over 1..days
batch_calendar(fn, niche, city, days, outcome) ==
    IF days <= 0 THEN <<>>
    ELSE LET before == batch_calendar(fn, niche, city, days - 1, outcome)
         IN before \o batch_day(fn, niche, city, days, outcome, before)

\* the 'day' of every post of a calendar, in order
DayNumbers(calendar_data) == [i \in 1 .. Len(calendar_data) |-> calendar_data[i].day]

\* (days: the day numbers of the calendar the record was built from)
CompletedRecord(business, calendar_data) ==
    [business |-> business, status |-> "completed", has_error |-> FALSE,
     posts_generated |-> Len(calendar_data), days |-> DayNumbers(calendar_data)]

FailedRecord(business, status) ==
    [business |-> business, status |-> status, has_error |-> TRUE, posts_generated |-> 0,
     days |-> <<>>]

BatchInit ==
    /\ \E fn \in BatchFns, bs \in BusinessLists, d \in BatchDays, size \in ChunkSizes :
         /\ fn # "safe_batch_generation" => size = 5
         /\ batch = [NoBatch EXCEPT !.fn = fn, !.pc = "run", !.businesses = bs, !.days = d,
                                    !.max_chunk_size = size, !.pos = 1]
    /\ GovIdle
    /\ PureIdle
    /\ GenIdle
    /\ RestIdle

\* one iteration of "for business in businesses" of process_batch_request
ProcessBatchBusiness ==
    /\ batch.fn = "process_batch_request" /\ batch.pc = "run"
    /\ batch.pos <= Len(batch.businesses)
    /\ \E outcome \in BatchOutcomes, save_ok \in BOOLEAN :
         LET business == batch.businesses[batch.pos]
             niche == BusinessGet(business, "niche", <<>>)
             city == BusinessGet(business, "city", <<>>)
             record ==
                IF niche.raised \/ city.raised \/ ~save_ok THEN FailedRecord(business, "failed")
                ELSE CompletedRecord(business,
                        batch_calendar(batch.fn, niche.value, city.value, batch.days, outcome))
         IN batch' = [batch EXCEPT !.results = Append(@, record), !.pos = @ + 1,
                                   !.outcomes = Append(@, outcome)]

\* one iteration of "for business in chunk_businesses" of safe_batch_generation
SafeBatchBusiness ==
    /\ batch.fn = "safe_batch_generation" /\ batch.pc = "run"
    /\ batch.pos <= Len(batch.businesses)
    /\ \E outcome \in BatchOutcomes :
         LET order == ChunkOrder(chunk_large_request(Len(batch.businesses),
                                                     batch.max_chunk_size), 1)
             business == batch.businesses[order[batch.pos]]
             niche == BusinessGet(business, "niche", T("business"))
             city == BusinessGet(business, "city", T("local"))
             record ==
                IF niche.raised \/ city.raised THEN FailedRecord(business, "failed")
                ELSE CompletedRecord(business,
                        batch_calendar(batch.fn, niche.value, city.value,
                                       safe_batch_days(batch.days), outcome))
         IN batch' = [batch EXCEPT !.results = Append(@, record), !.pos = @ + 1,
                                   !.outcomes = Append(@, outcome)]

\* the submit loop of _process_business_chunk: business['niche'] and
\* business['city'] are read outside any try
ChunkSubmit ==
    /\ batch.fn = "_process_business_chunk" /\ batch.pc = "run"
    /\ LET bad == { i \in 1 .. Len(batch.businesses) :
                      \/ BusinessItem(batch.businesses[i], "niche").raised
                      \/ BusinessItem(batch.businesses[i], "city").raised }
       IN batch' = IF bad # {}
                   THEN [batch EXCEPT !.pc = "raised"]
                   ELSE [batch EXCEPT !.pc = "collect", !.futures = batch.businesses]

\* one iteration of "for future, business in futures"
ChunkCollect ==
    /\ batch.fn = "_process_business_chunk" /\ batch.pc = "collect"
    /\ batch.pos <= Len(batch.futures)
    /\ \E outcome \in BatchOutcomes, result \in {"returned", "timeout"} :
         LET business == batch.futures[batch.pos]
             record ==
                IF result = "timeout" THEN FailedRecord(business, "timeout")
                ELSE CompletedRecord(business,
                        batch_calendar(batch.fn, BatchNiche, BatchCity, batch.days, outcome))
         IN batch' = [batch EXCEPT !.results = Append(@, record), !.pos = @ + 1,
                                   !.outcomes = Append(@, outcome)]

\* "return results"
BatchReturn ==
    /\ batch.pc \in {"run", "collect"}
    /\ batch.fn = "_process_business_chunk" => batch.pc = "collect"
    /\ batch.pos > Len(batch.businesses)
    /\ batch' = [batch EXCEPT !.pc = "done"]

BatchNext ==
    \/ ProcessBatchBusiness /\ UNCHANGED <<govVars, pureVars, genVars, restVars>>
    \/ SafeBatchBusiness /\ UNCHANGED <<govVars, pureVars, genVars, restVars>>
    \/ ChunkSubmit /\ UNCHANGED <<govVars, pureVars, genVars, restVars>>
    \/ ChunkCollect /\ UNCHANGED <<govVars, pureVars, genVars, restVars>>
    \/ BatchReturn /\ UNCHANGED <<govVars, pureVars, genVars, restVars>>

SpecBatch == BatchInit /\ [][BatchNext]_vars

\* the call is over: it returned its list or an exception left it
BatchOver == batch.fn # "none" /\ batch.pc \in {"done", "raised"}

\* C10: batch generation returns exactly one record per input business, in
\* input order; a business whose processing fails gets a record whose status
\* is not "completed" and that carries an error, and the businesses after it
\* are still processed.
C10_OneRecordPerBusiness ==
    BatchOver =>
        /\ batch.pc = "done"
        /\ Len(batch.results) = Len(batch.businesses)
        /\ \A i \in 1 .. Len(batch.results) :
             /\ batch.results[i].business = batch.businesses[i]
             /\ batch.results[i].status # "completed" => batch.results[i].has_error

\* the results hold one record per business, each with the service outcome
\* its calendar was generated under
BatchReturned == batch.pc = "done" /\ Len(batch.outcomes) = Len(batch.results)

\* C19: safe_batch_generation caps the calendar at 10 days: for a request of d
\* days it attempts exactly the days 1..min(d, 10), so when every day's
\* generator call yields a post a request for 10 days yields 10 posts.
C19_SafeBatchDays ==
    (batch.fn = "safe_batch_generation" /\ BatchReturned) =>
        \A i \in 1 .. Len(batch.results) :
            (batch.results[i].status = "completed" /\ batch.outcomes[i] \in ServiceDown)
            => /\ batch.results[i].days = [d \in 1 .. Min(batch.days, 10) |-> d]
               /\ batch.results[i].posts_generated = Min(batch.days, 10)

\* the day numbers fn reports for a business under a service outcome
ReportedDays(fn, business, days, outcome) ==
    LET niche == BusinessGet(business, "niche",
                             IF fn = "process_batch_request" THEN <<>> ELSE T("business"))
        city == BusinessGet(business, "city",
                            IF fn = "process_batch_request" THEN <<>> ELSE T("local"))
    IN DayNumbers(batch_calendar(fn, niche.value, city.value,
                                 IF fn = "process_batch_request" THEN days
                                 ELSE safe_batch_days(days),
                                 outcome))

\* C20: for the same business, a day count in 1..10 and the same per-day
\* generator outputs, process_batch_request and safe_batch_generation report
\* the same posts_generated and the same day numbers.
C20_BatchFunctionsAgree ==
    (batch.fn \in {"process_batch_request", "safe_batch_generation"} /\ BatchReturned) =>
        \A i \in 1 .. Len(batch.results) :
            batch.results[i].status = "completed"
            => \A fn \in {"process_batch_request", "safe_batch_generation"} :
                  LET reported == ReportedDays(fn, batch.results[i].business, batch.days,
                                               batch.outcomes[i])
                  IN /\ batch.results[i].days = reported
                     /\ batch.results[i].posts_generated = Len(reported)

(***************************************************************************)
(* Part V.  The per-day try/except of the form handlers (main.py,          *)
(* ultra_safe_main.py, deployment_main.py) when a step of the body raises. *)
(***************************************************************************)

FormCallers == {"main", "ultra", "deployment"}

\* longest day loop followed step by step
MaxLoopDays == 3

LoopNiche == T("hair")

LoopCity == T("Austin")

\* the entry the except clause appends
emergency_entry(niche, city, day) ==
    [ Day |-> DayLabel(day),
      Activity |-> T("Social Media Post"),
      Script |-> Cat(<<T("Professional"), Sp, niche, Sp, T("services in"), Sp, city>>),
      Visual |-> T("Professional business photo"),
      Caption |-> Cat(<<T("Quality"), Sp, niche, Sp, T("services in"), Sp, city, Sp,
                        T("- book today!")>>),
      Hashtags |-> Cat(<<default_hashtags(niche, city), Sp, T("#Professional")>>),
      Time |-> T("Peak hours"),
      CTA |-> T("Book now"),
      Prompt |-> Cat(<<T("Professional"), Sp, niche, Sp, T("business in"), Sp, city>>) ]

\* the entry the try body appends when nothing raises
normal_entries(caller, niche, city, day, num_days) ==
    IF caller = "main"
    THEN main_day(niche, city, day, num_days, CHOOSE o \in ServiceDown : TRUE, <<>>)
    ELSE <<SafeEntry(day)>>

LoopInit ==
    /\ \E c \in FormCallers, n \in 1 .. MaxLoopDays :
         loop = [NoLoop EXCEPT !.caller = c, !.pc = "loop", !.niche = LoopNiche,
                               !.city = LoopCity, !.num_days = n, !.day = 1]
    /\ call_log = <<>>
    /\ stream = NoStream
    /\ GovIdle
    /\ PureIdle
    /\ GenIdle
    /\ BatchIdle
    /\ LateIdle

\* the body runs to its end: the entry is appended
LoopDay ==
    /\ loop.pc = "loop" /\ loop.caller \in FormCallers
    /\ loop.day <= loop.num_days
    /\ LET new == normal_entries(loop.caller, loop.niche, loop.city, loop.day, loop.num_days)
       IN loop' = [loop EXCEPT !.calendar_data = @ \o new,
                               !.appended = @ \o [i \in 1 .. Len(new) |-> loop.day],
                               !.day = @ + 1]

\* a step before calendar_data.append raises: the except clause appends
LoopDayRaisesBefore ==
    /\ loop.pc = "loop" /\ loop.caller \in FormCallers
    /\ loop.day <= loop.num_days
    /\ loop' = [loop EXCEPT
                  !.calendar_data = Append(@, emergency_entry(loop.niche, loop.city, loop.day)),
                  !.appended = Append(@, loop.day),
                  !.raised = Append(@, loop.day),
                  !.day = @ + 1]

\* a step after calendar_data.append raises (logging, gc.collect, time.sleep):
\* the entry is already in the list when the except clause appends
LoopDayRaisesAfter ==
    /\ loop.pc = "loop" /\ loop.caller \in FormCallers
    /\ loop.day <= loop.num_days
    /\ LET new == normal_entries(loop.caller, loop.niche, loop.city, loop.day, loop.num_days)
       IN loop' = [loop EXCEPT
                     !.calendar_data =
                        Append(@ \o new, emergency_entry(loop.niche, loop.city, loop.day)),
                     !.appended = Append(@ \o [i \in 1 .. Len(new) |-> loop.day], loop.day),
                     !.raised = Append(@, loop.day),
                     !.day = @ + 1]

LoopFinish ==
    /\ loop.pc = "loop" /\ loop.caller \in FormCallers
    /\ loop.day > loop.num_days
    /\ loop' = [loop EXCEPT !.pc = "done"]

LoopNext ==
    \/ LoopDay /\ UNCHANGED <<govVars, pureVars, genVars, batchVars, lateVars, logVars, streamVars>>
    \/ LoopDayRaisesBefore
         /\ UNCHANGED <<govVars, pureVars, genVars, batchVars, lateVars, logVars, streamVars>>
    \/ LoopDayRaisesAfter
         /\ UNCHANGED <<govVars, pureVars, genVars, batchVars, lateVars, logVars, streamVars>>
    \/ LoopFinish /\ UNCHANGED <<govVars, pureVars, genVars, batchVars, lateVars, logVars, streamVars>>

SpecLoop == LoopInit /\ [][LoopNext]_vars

\* the positions of the entries the loop appended for day d
LoopEntriesOf(d) == { j \in 1 .. Len(loop.appended) : loop.appended[j] = d }

\* C11: in the form handlers of main.py, ultra_safe_main.py and
\* deployment_main.py, a day whose body raises (before or after the append)
\* ends with exactly one entry, the loop goes on with the next day, and no
\* day number ever has two entries.
C11_OneEntryPerRaisedDay ==
    loop.caller \in FormCallers =>
        /\ \A i \in 1 .. Len(loop.raised) :
             /\ Cardinality(LoopEntriesOf(loop.raised[i])) = 1
             /\ loop.day > loop.raised[i]
        /\ \A d \in 1 .. MaxLoopDays : Cardinality(LoopEntriesOf(d)) <= 1

(***************************************************************************)
(* Part VI.  Calendars built from generate_diverse_content by the callers  *)
(* that pass it the set of signatures used so far.                         *)
(***************************************************************************)

DiverseCallers == {"enterprise", "_generate_single_business", "safe_batch_generation"}

\* the lengths of the calendars built
DiverseDays == {5, 16, 30}

DiverseNiches == { T("hair"), <<"hair", ",", " ", "nails">> }

\* the service answers every call with blank text, so that every post of the
\* calendar comes from generate_diverse_content
BlankResponse == [kind |-> "response", content |-> <<" ">>]

\* the entries one iteration of the caller's day loop appends
caller_day(caller, niche, city, day, num_days, calendar_data) ==
    IF caller = "enterprise"
    THEN enterprise_day(niche, city, day, num_days, BlankResponse, calendar_data)
    ELSE batch_day(caller, niche, city, day, BlankResponse, calendar_data)

\* the last day of the caller's loop
caller_last_day(caller, num_days) ==
    IF caller = "safe_batch_generation" THEN safe_batch_days(num_days) ELSE num_days

DiverseInit ==
    /\ \E c \in DiverseCallers, niche \in DiverseNiches, n \in DiverseDays :
         loop = [NoLoop EXCEPT !.caller = c, !.pc = "loop", !.niche = niche,
                               !.city = LoopCity, !.num_days = n, !.day = 1]
    /\ call_log = <<>>
    /\ stream = NoStream
    /\ GovIdle
    /\ PureIdle
    /\ GenIdle
    /\ BatchIdle
    /\ LateIdle

\* one iteration of the caller's "for day in range(...)"
DiverseDay ==
    /\ loop.pc = "loop" /\ loop.caller \in DiverseCallers
    /\ loop.day <= caller_last_day(loop.caller, loop.num_days)
    /\ LET new == caller_day(loop.caller, loop.niche, loop.city, loop.day, loop.num_days,
                             loop.calendar_data)
       IN loop' = [loop EXCEPT !.calendar_data = @ \o new,
                               !.appended = @ \o [i \in 1 .. Len(new) |-> loop.day],
                               !.day = @ + 1]

DiverseFinish ==
    /\ loop.pc = "loop" /\ loop.caller \in DiverseCallers
    /\ loop.day > caller_last_day(loop.caller, loop.num_days)
    /\ loop' = [loop EXCEPT !.pc = "done"]

DiverseNext ==
    \/ DiverseDay /\ UNCHANGED <<govVars, pureVars, genVars, batchVars, lateVars, logVars, streamVars>>
    \/ DiverseFinish
         /\ UNCHANGED <<govVars, pureVars, genVars, batchVars, lateVars, logVars, streamVars>>

SpecDiverse == DiverseInit /\ [][DiverseNext]_vars

\* the signature of a calendar entry: lower-cased activity, "_", lower-cased
\* first 30 characters of the script
EntrySignature(e) ==
    IF "Activity" \in DOMAIN e THEN Signature(e["Activity"], e["Script"])
    ELSE Signature(e["activity"], e["script"])

\* the entry at position j was produced by generate_diverse_content: the post
\* generate_social_post returned for its day was blank
DiverseMade(j) ==
    generate_social_post(loop.niche, loop.city, loop.appended[j], BlankResponse).value = <<>>

\* C12: in a calendar of up to 30 days, no two of the entries that come from
\* generate_diverse_content, called with the used-signature set its caller
\* builds, have the same signature (enterprise form handler,
\* _generate_single_business, safe_batch_generation).
C12_SignaturesDistinct ==
    loop.caller \in DiverseCallers =>
        \A i, j \in 1 .. Len(loop.calendar_data) :
            (i # j /\ DiverseMade(i) /\ DiverseMade(j)) =>
                EntrySignature(loop.calendar_data[i]) # EntrySignature(loop.calendar_data[j])

(***************************************************************************)
(* Part VII.  Sequences of calls of the two template generators within one *)
(* process: what a call returns against the calls made before it.         *)
(***************************************************************************)

\* number of calls followed
MaxCalls == 3

LogNiches == { T("hair"), T("pizza") }

LogDays == {1, 9}

LogUsed(niche, day) == { {}, {FirstSignature(niche, LoopCity, day)} }

LogInit ==
    /\ call_log = <<>>
    /\ loop = NoLoop
    /\ stream = NoStream
    /\ GovIdle
    /\ PureIdle
    /\ GenIdle
    /\ BatchIdle
    /\ LateIdle

\* a call of get_fallback_content(niche, city, day)
LogFallback ==
    /\ Len(call_log) < MaxCalls
    /\ \E niche \in LogNiches, day \in LogDays :
         call_log' = Append(call_log,
            [fn |-> "get_fallback_content", niche |-> niche, city |-> LoopCity, day |-> day,
             used_content |-> {}, out |-> get_fallback_content(niche, LoopCity, day)])

\* a call of generate_diverse_content(niche, city, day, used_content)
LogDiverse ==
    /\ Len(call_log) < MaxCalls
    /\ \E niche \in LogNiches, day \in LogDays :
         \E used \in LogUsed(niche, day) :
            call_log' = Append(call_log,
               [fn |-> "generate_diverse_content", niche |-> niche, city |-> LoopCity,
                day |-> day, used_content |-> used,
                out |-> generate_diverse_content(niche, LoopCity, day, used)])

LogNext ==
    \/ LogFallback /\ UNCHANGED <<govVars, pureVars, genVars, batchVars, lateVars, loopVars, streamVars>>
    \/ LogDiverse /\ UNCHANGED <<govVars, pureVars, genVars, batchVars, lateVars, loopVars, streamVars>>

SpecCalls == LogInit /\ [][LogNext]_vars

SameCall(a, b) ==
    /\ a.fn = b.fn /\ a.niche = b.niche /\ a.city = b.city /\ a.day = b.day
    /\ a.used_content = b.used_content

EXPORT_ROWS == 7

NDJSON_ROWS == 55

MaxLimit == 1000

PageInputs == {-1, 0, 1, 2, 3, 4, 8}

LimitInputs == {-1, 0, 1, 2, 3, 7, 8, MaxLimit, MaxLimit + 1}

\* the row generate_large_content yields for i (0-based)
Mut_content_row(i) ==
    [ id |-> i,
      business_type |-> <<"nail salon", "hair salon", "spa", "barbershop", "beauty clinic">>[(i % 5) + 1],
      city |-> <<"Miami", "Dallas", "Phoenix", "Seattle", "Denver">>[(i % 5) + 1],
      day |-> (i % 30) + 1,
      activity |-> <<"Behind the Scenes", "Client Testimonial", "Before & After",
                     "Educational Tip">>[(i % 4) + 1] ]

content_row(i) ==
    [ id |-> i + 1,
      business_type |-> <<"nail salon", "hair salon", "spa", "barbershop", "beauty clinic">>[(i % 5) + 1],
      city |-> <<"Miami", "Dallas", "Phoenix", "Seattle", "Denver">>[(i % 5) + 1],
      day |-> (i % 30) + 1,
      activity |-> <<"Behind the Scenes", "Client Testimonial", "Before & After",
                     "Educational Tip">>[(i % 4) + 1] ]

\* the keys followed here; script, hashtags, generated_at and the branding key
\* are further string fields of the same object
RowKeys == <<"id", "business_type", "city", "day", "activity">>

\* json.dumps(content_row) + '\n' as tokens: { key : value , ... } newline
json_line(row) ==
    LET pair(k) == <<RowKeys[k], ":", row[RowKeys[k]]>> \o (IF k < Len(RowKeys) THEN <<",">> ELSE <<>>)
        pairs[k \in 0 .. Len(RowKeys)] == IF k = 0 THEN <<>> ELSE pairs[k - 1] \o pair(k)
    IN <<"{">> \o pairs[Len(RowKeys)] \o <<"}", "\n">>

\* json.loads of one line of the stream; the keys it finds with their values
json_loads(line) ==
    LET n == (Len(line) - 2) \div 4
        well == /\ Len(line) >= 3 /\ (Len(line) - 2) % 4 = 0
                /\ line[1] = "{" /\ line[Len(line) - 1] = "}"
                /\ \A k \in 1 .. n : line[4 * k - 1] = ":"
    IN IF ~well THEN [ok |-> FALSE, keys |-> {}, id |-> 0]
       ELSE [ok |-> TRUE,
             keys |-> { line[4 * k - 2] : k \in 1 .. n },
             id |-> IF \E k \in 1 .. n : line[4 * k - 2] = "id"
                    THEN line[4 * (CHOOSE k \in 1 .. n : line[4 * k - 2] = "id")]
                    ELSE 0]

Mut_paginate_invalid(page, limit) == page < 0 \/ limit < 1 \/ limit > MaxLimit

\* if page < 1 or limit < 1 or limit > 1000
paginate_invalid(page, limit) == page < 1 \/ limit < 1 \/ limit > MaxLimit

StreamInit ==
    /\ \/ \E page \in PageInputs, limit \in LimitInputs, ints \in BOOLEAN :
            stream = [NoStream EXCEPT !.route = "paginate", !.pc = "received", !.page = page,
                                      !.limit = limit, !.ints = ints]
       \/ stream = [NoStream EXCEPT !.route = "ndjson", !.pc = "rows"]
    /\ loop = NoLoop
    /\ call_log = <<>>
    /\ GovIdle
    /\ PureIdle
    /\ GenIdle
    /\ BatchIdle
    /\ LateIdle

\* paginate_results up to the loop: int(...) of both parameters, validation
PaginateStart ==
    /\ stream.route = "paginate" /\ stream.pc = "received"
    /\ stream' =
         IF ~stream.ints \/ paginate_invalid(stream.page, stream.limit)
         THEN [stream EXCEPT !.pc = "done", !.status = 400]
         ELSE [stream EXCEPT !.pc = "rows", !.i = 0]

\* one iteration of "for i, content_row in enumerate(generate_large_content(EXPORT_ROWS))"
PaginateRow ==
    /\ stream.route = "paginate" /\ stream.pc = "rows"
    /\ stream.i < EXPORT_ROWS
    /\ LET offset == (stream.page - 1) * stream.limit IN
       stream' =
         IF stream.i < offset THEN [stream EXCEPT !.i = @ + 1]
         ELSE IF Len(stream.results) >= stream.limit THEN [stream EXCEPT !.pc = "respond"]
         ELSE [stream EXCEPT !.results = Append(@, content_row(stream.i)), !.i = @ + 1]

\* the generator is exhausted, or the loop was left by break: jsonify(response)
PaginateRespond ==
    /\ stream.route = "paginate"
    /\ \/ stream.pc = "respond"
       \/ stream.pc = "rows" /\ stream.i >= EXPORT_ROWS
    /\ stream' = [stream EXCEPT !.pc = "done", !.status = 200]

\* one iteration of generate_ndjson_stream: yield json_line
NdjsonRow ==
    /\ stream.route = "ndjson" /\ stream.pc = "rows"
    /\ stream.i < NDJSON_ROWS
    /\ stream' = [stream EXCEPT !.results = Append(@, json_line(content_row(stream.i))),
                                !.i = @ + 1]

\* the generator is exhausted: the response body ends
NdjsonEnd ==
    /\ stream.route = "ndjson" /\ stream.pc = "rows"
    /\ stream.i >= NDJSON_ROWS
    /\ stream' = [stream EXCEPT !.pc = "done", !.status = 200]

StreamNext ==
    \/ PaginateStart /\ UNCHANGED <<govVars, pureVars, genVars, batchVars, lateVars, loopVars, logVars>>
    \/ PaginateRow /\ UNCHANGED <<govVars, pureVars, genVars, batchVars, lateVars, loopVars, logVars>>
    \/ PaginateRespond /\ UNCHANGED <<govVars, pureVars, genVars, batchVars, lateVars, loopVars, logVars>>
    \/ NdjsonRow /\ UNCHANGED <<govVars, pureVars, genVars, batchVars, lateVars, loopVars, logVars>>
    \/ NdjsonEnd /\ UNCHANGED <<govVars, pureVars, genVars, batchVars, lateVars, loopVars, logVars>>

SpecStream == StreamInit /\ [][StreamNext]_vars

\* the ids the claim expects on a page
ExpectedIds(page, limit) ==
    LET first == (page - 1) * limit + 1
        last == IF page * limit < EXPORT_ROWS THEN page * limit ELSE EXPORT_ROWS
    IN [k \in 1 .. (IF last >= first THEN last - first + 1 ELSE 0) |-> first + k - 1]

\* C15: /paginate answers 400 exactly when page < 1, limit < 1, limit > 1000
\* or a parameter is no integer; otherwise 200 with exactly the rows
\* (page-1)*limit+1 .. min(page*limit, EXPORT_ROWS) in ascending order.
C15_PaginateSlice ==
    (stream.route = "paginate" /\ stream.pc = "done") =>
        /\ stream.status = 400 <=>
              (~stream.ints \/ stream.page < 1 \/ stream.limit < 1 \/ stream.limit > 1000)
        /\ stream.status # 400 =>
              /\ stream.status = 200
              /\ [k \in 1 .. Len(stream.results) |-> stream.results[k].id]
                    = ExpectedIds(stream.page, stream.limit)

\* a last page that is only partly filled
C15_Witness ==
    /\ stream.route = "paginate" /\ stream.pc = "done" /\ stream.status = 200
    /\ stream.results # <<>>
    /\ Len(stream.results) < stream.limit
    /\ stream.page > 1

\* C16: the /ndjson stream emits exactly NDJSON_ROWS lines, each a JSON
\* object with business_type and city, ids 1..NDJSON_ROWS ascending with no
\* row skipped or repeated, and then ends.
C16_NdjsonRows ==
    stream.route = "ndjson" =>
        /\ \A k \in 1 .. Len(stream.results) :
             LET row == json_loads(stream.results[k]) IN
             /\ row.ok
             /\ {"business_type", "city"} \subseteq row.keys
             /\ row.id = k
             /\ stream.results[k][Len(stream.results[k])] = "\n"
        /\ Len(stream.results) <= NDJSON_ROWS
        /\ stream.pc = "done" => Len(stream.results) = NDJSON_ROWS

\* the stream has ended after its last row
C16_Witness ==
    /\ stream.route = "ndjson" /\ stream.pc = "done"
    /\ Len(stream.results) = NDJSON_ROWS
    /\ json_loads(stream.results[NDJSON_ROWS]).id = NDJSON_ROWS

(***************************************************************************)
(* Part IX.  chunk_large_request (crash_prevention.py and                  *)
(* performance_optimizer.py) and the chunk size safe_batch_generation      *)
(* settles on.                                                             *)
(***************************************************************************)

ChunkFns == {"crash_prevention", "performance_optimizer", "safe_batch_generation"}

\* largest number of items chunked
MaxItems == 7

\* chunk sizes of the direct calls
MaxChunkSize == 4

\* max_chunk_size as callers of safe_batch_generation pass it: 3 from the
\* background job of /api/v1/batch/large, the default 5, and values around them
CallerChunkSizes == {2, 3, 5, 12}

\* psutil.virtual_memory().percent, on both sides of the two thresholds
MemoryPercents == {40, 41, 60, 61}

\* the chunk size safe_batch_generation passes to chunk_large_request
safe_chunk_size(memory_percent, max_chunk_size) ==
    IF memory_percent > 60 THEN 3
    ELSE IF memory_percent > 40 THEN 5
    ELSE Min(max_chunk_size, 10)

\* an end that forgets the list's length
Mut_chunk_end(i, chunk_size, total_items) == i + chunk_size

\* end = min(i + chunk_size, total_items)
chunk_end(i, chunk_size, total_items) == Min(i + chunk_size, total_items)

ChunkInit ==
    /\ \E fn \in ChunkFns, n \in 0 .. MaxItems :
         \/ /\ fn # "safe_batch_generation"
            /\ \E size \in 1 .. MaxChunkSize :
                 chunking = [NoChunk EXCEPT !.fn = fn, !.pc = "loop", !.total_items = n,
                                            !.chunk_size = size, !.max_chunk_size = size]
         \/ /\ fn = "safe_batch_generation"
            /\ \E size \in CallerChunkSizes, m \in MemoryPercents :
                 chunking = [NoChunk EXCEPT !.fn = fn, !.pc = "loop", !.total_items = n,
                                            !.chunk_size = safe_chunk_size(m, size),
                                            !.max_chunk_size = size, !.memory_percent = m]
    /\ wrap = NoWrap
    /\ queue = NoQueue
    /\ job = NoJob
    /\ usage = NoUsage
    /\ loop = NoLoop
    /\ call_log = <<>>
    /\ stream = NoStream
    /\ GovIdle
    /\ PureIdle
    /\ GenIdle
    /\ BatchIdle

\* one iteration of "for i in range(0, total_items, chunk_size)"
ChunkAppend ==
    /\ chunking.pc = "loop"
    /\ chunking.i < chunking.total_items
    /\ chunking' =
         [chunking EXCEPT
            !.chunks = Append(@, <<chunking.i,
                                   chunk_end(chunking.i, chunking.chunk_size,
                                             chunking.total_items)>>),
            !.i = @ + chunking.chunk_size]

\* "return chunks"
ChunkReturn ==
    /\ chunking.pc = "loop"
    /\ chunking.i >= chunking.total_items
    /\ chunking' = [chunking EXCEPT !.pc = "done"]

otherThanChunk ==
    <<govVars, pureVars, genVars, batchVars, loopVars, logVars, streamVars, wrap, queue, job,
      usage>>

ChunkNext ==
    \/ ChunkAppend /\ UNCHANGED otherThanChunk
    \/ ChunkReturn /\ UNCHANGED otherThanChunk

SpecChunk == ChunkInit /\ [][ChunkNext]_vars

\* the call has returned its list
ChunksReturned == chunking.fn # "none" /\ chunking.pc = "done"

\* C21: chunk_large_request(total_items, chunk_size), total_items >= 0 and
\* chunk_size >= 1, returns half-open ranges that partition [0, total_items):
\* contiguous, ordered, non-overlapping, covering the whole range, each of
\* length at most chunk_size and all but the last of length exactly
\* chunk_size; the items visited over all chunks are the input list, each once.
C21_ChunksPartition ==
    ChunksReturned =>
        LET chunks == chunking.chunks
            n == Len(chunks)
        IN /\ (n = 0) = (chunking.total_items = 0)
           /\ n > 0 => chunks[1][1] = 0 /\ chunks[n][2] = chunking.total_items
           /\ \A c \in 1 .. n :
                /\ chunks[c][1] < chunks[c][2]
                /\ chunks[c][2] - chunks[c][1] <= chunking.chunk_size
                /\ c < n => /\ chunks[c][2] - chunks[c][1] = chunking.chunk_size
                            /\ chunks[c + 1][1] = chunks[c][2]
           /\ ChunkOrder(chunks, 1) = [k \in 1 .. chunking.total_items |-> k]
           /\ chunks = chunk_large_request(chunking.total_items, chunking.chunk_size)

\* a returned list of three chunks whose last one is shorter than chunk_size
C21_Witness ==
    /\ ChunksReturned
    /\ Len(chunking.chunks) = 3
    /\ chunking.chunks[3][2] - chunking.chunks[3][1] < chunking.chunk_size

\* C22: safe_batch_generation(businesses, days, max_chunk_size) never
\* processes a chunk holding more businesses than the max_chunk_size its
\* caller passed, whatever the sampled memory percentage.
C22_ChunkWithinCallerSize ==
    chunking.fn = "safe_batch_generation" =>
        \A c \in 1 .. Len(chunking.chunks) :
            chunking.chunks[c][2] - chunking.chunks[c][1] <= chunking.max_chunk_size

(***************************************************************************)
(* Part X.  main.py's form handler on free-text form fields, for the day   *)
(* counts on both sides of the num_days <= 7 test.                         *)
(***************************************************************************)

\* request.form.get("city", "").strip(): any text, a '|' included
MainCities == { <<"Austin">>, <<"Austin", Pipe, "TX">> }

MainDays == {MaxGenDays, MainAiDays, MainAiDays + 1, MaxRequestDays}

MainInit ==
    /\ \E n \in GenNiches, c \in MainCities, d \in MainDays :
         gen = [NoGen EXCEPT !.handler = "main", !.pc = "received",
                             !.form = [NoForm EXCEPT !.niche = n, !.city = c, !.days = d]]
    /\ gen_log = [outcomes |-> <<>>, appended |-> <<>>, svc_calls |-> 0]
    /\ GovIdle
    /\ PureIdle
    /\ BatchIdle
    /\ RestIdle

SpecMain == MainInit /\ [][GenNext]_vars

\* C25: in main.py's form handler generate_social_post is invoked only for
\* requests with num_days <= 7; for num_days in 8..30 no external call is
\* made and every entry is built from the templates: Day 'Day d', activity
\* activities[(d-1) mod 7], time slot times[(d-1) mod 6].
C25_TemplatesAboveSevenDays ==
    (gen.handler = "main" /\ gen.pc \in {"loop", "done"}) =>
        /\ \A i \in 1 .. Len(gen_log.outcomes) :
             (gen_log.outcomes[i].kind # "not_called") => gen.num_days <= MainAiDays
        /\ gen.num_days > MainAiDays =>
             \A d \in 1 .. Len(gen.calendar_data) :
                 /\ gen.calendar_data[d].Day = DayLabel(d)
                 /\ gen.calendar_data[d].Activity
                        = At(main_activities, (d - 1) % Len(main_activities))
                 /\ gen.calendar_data[d].Time = At(main_times, (d - 1) % Len(main_times))

(***************************************************************************)
(* Part XI.  CrashPrevention.safe_generation_wrapper: wrapped calls made   *)
(* from the main thread and from other threads.                            *)
(***************************************************************************)

\* threads other than the main thread that make wrapped calls
MaxWorkers == 1

\* position 1 is the main thread of the interpreter
WrapThreads == 1 .. (MaxWorkers + 1)

IsMainThread(t) == t = 1

\* readings of time.time(); two calls may read the same value
ClockTicks == {1, 2}

\* what the wrapped function does when it is run
Behaviours == {"returns", "timeout", "MemoryError", "exception"}

\* the positional arguments of a wrapped call: none (generate_single_post())
\* or niche, city, day
WrapArgs == { <<>>, <<T("hair"), T("Austin"), 3>> }

\* what the wrapped function returns when it completes
OwnResult == T("own result")

\* an id that leaves the thread out
Mut_generation_id(clock, t) == <<clock, 1>>

\* f"{time.time()}_{threading.current_thread().ident}"
generation_id(clock, t) == <<clock, t>>

\* CrashPrevention.get_emergency_fallback(*args)
get_emergency_fallback(args) ==
    LET niche == IF Len(args) >= 3 THEN args[1] ELSE T("business")
        city == IF Len(args) >= 3 THEN args[2] ELSE T("local")
        day == IF Len(args) >= 3 THEN args[3] ELSE 1
    IN JoinFields(<<
         DayLabel(day),
         Cat(<<Title(niche), Sp, T("Content")>>),
         Cat(<<T("Professional"), Sp, niche, Sp, T("service in"), Sp, city>>),
         T("High-quality content"),
         Cat(<<T("Quality"), Sp, niche, Sp, T("services in"), Sp, city, Sp,
               T("- book today!")>>),
         Cat(<<T("#"), NoSpaces(niche), Sp, T("#"), NoSpaces(city), T("Business"), Sp,
               T("#Professional")>>),
         T("Peak hours"),
         T("Book now"),
         Cat(<<T("Professional"), Sp, niche, Sp, T("business in"), Sp, city,
               T(", modern setup,"), Sp, Handle, Sp, T("visible")>>) >>)

WrapInit ==
    /\ wrap = [active_generations |-> {}, calls |-> [t \in WrapThreads |-> NoCall]]
    /\ chunking = NoChunk
    /\ queue = NoQueue
    /\ job = NoJob
    /\ usage = NoUsage
    /\ loop = NoLoop
    /\ call_log = <<>>
    /\ stream = NoStream
    /\ GovIdle
    /\ PureIdle
    /\ GenIdle
    /\ BatchIdle

\* wrapper() up to the try: the entry is put into active_generations
WrapEnter(t) ==
    /\ wrap.calls[t].pc = "idle"
    /\ \E clock \in ClockTicks, args \in WrapArgs, b \in Behaviours :
         wrap' = [wrap EXCEPT
                    !.active_generations = @ \cup {generation_id(clock, t)},
                    !.calls[t] = [NoCall EXCEPT !.pc = "try", !.id = generation_id(clock, t),
                                                !.args = args, !.behaviour = b]]

\* "with self.generation_timeout(...)": signal.signal raises ValueError in
\* every thread but the main one, which "except Exception" turns into the
\* emergency fallback
WrapArmTimeout(t) ==
    /\ wrap.calls[t].pc = "try"
    /\ wrap' = IF IsMainThread(t)
               THEN [wrap EXCEPT !.calls[t].pc = "running"]
               ELSE [wrap EXCEPT
                       !.calls[t].pc = "finally",
                       !.calls[t].result =
                           [kind |-> "fallback",
                            value |-> get_emergency_fallback(wrap.calls[t].args)]]

\* result = generation_func(*args, **kwargs) and the except clauses
WrapRun(t) ==
    /\ wrap.calls[t].pc = "running"
    /\ wrap' = [wrap EXCEPT
                  !.calls[t].pc = "finally",
                  !.calls[t].result =
                      IF wrap.calls[t].behaviour = "returns"
                      THEN [kind |-> "result", value |-> OwnResult]
                      ELSE [kind |-> "fallback",
                            value |-> get_emergency_fallback(wrap.calls[t].args)]]

\* finally: self.active_generations.pop(generation_id, None)
WrapFinally(t) ==
    /\ wrap.calls[t].pc = "finally"
    /\ wrap' = [wrap EXCEPT !.active_generations = @ \ {wrap.calls[t].id},
                            !.calls[t].pc = "returned"]

\* the thread goes on to its next wrapped call
WrapAgain(t) ==
    /\ wrap.calls[t].pc = "returned"
    /\ wrap' = [wrap EXCEPT !.calls[t] = NoCall]

otherThanWrap ==
    <<govVars, pureVars, genVars, batchVars, loopVars, logVars, streamVars, chunking, queue,
      job, usage>>

WrapNext ==
    \/ \E t \in WrapThreads : WrapEnter(t) /\ UNCHANGED otherThanWrap
    \/ \E t \in WrapThreads : WrapArmTimeout(t) /\ UNCHANGED otherThanWrap
    \/ \E t \in WrapThreads : WrapRun(t) /\ UNCHANGED otherThanWrap
    \/ \E t \in WrapThreads : WrapFinally(t) /\ UNCHANGED otherThanWrap
    \/ \E t \in WrapThreads : WrapAgain(t) /\ UNCHANGED otherThanWrap

SpecWrap == WrapInit /\ [][WrapNext]_vars

\* C23: a function wrapped by safe_generation_wrapper / prevent_crashes never
\* propagates an exception: the wrapper returns the function's own result
\* whenever the function completes in time without raising, from whichever
\* thread it is called, and the 9-field emergency fallback on a timeout, a
\* MemoryError or any other exception.
C23_WrapperReturnsOwnResult ==
    \A t \in DOMAIN wrap.calls :
        wrap.calls[t].pc = "returned" =>
            IF wrap.calls[t].behaviour = "returns"
            THEN wrap.calls[t].result = [kind |-> "result", value |-> OwnResult]
            ELSE /\ wrap.calls[t].result.kind = "fallback"
                 /\ FieldCount(wrap.calls[t].result.value) = NumFields

\* the threads whose wrapped call has entered and not yet left wrapper()
WrapRunning == { t \in DOMAIN wrap.calls : wrap.calls[t].pc \in {"try", "running", "finally"} }

\* C24: active_generations holds an entry for a wrapped call exactly while
\* the call is running: after the call returns by any path its id is absent,
\* and with no wrapped call running the dictionary is empty, also when
\* wrapped calls run concurrently on different threads.
C24_ActiveGenerationsExact ==
    /\ wrap.active_generations = { wrap.calls[t].id : t \in WrapRunning }
    /\ \A t, u \in WrapRunning : wrap.calls[t].id = wrap.calls[u].id => t = u
    /\ WrapRunning = {} => wrap.active_generations = {}

\* two calls entered at the same clock reading on different threads; one has
\* returned and the other is still running
C24_Witness ==
    \E t, u \in DOMAIN wrap.calls :
        /\ wrap.calls[t].pc = "returned" /\ wrap.calls[u].pc = "running"
        /\ wrap.calls[t].id[1] = wrap.calls[u].id[1]
        /\ wrap.active_generations = {wrap.calls[u].id}

(***************************************************************************)
(* Part XII.  The streaming routes /stream and /events.                    *)
(***************************************************************************)

\* CHUNK_SIZE = int(os.environ.get('CHUNK_SIZE', '1024'))
CHUNK_SIZE == 1024

\* the default and a deployment that sets CHUNK_SIZE below a row's length
ChunkSizeInputs == {CHUNK_SIZE, 64}

\* "chunk_count % 50 == 0"
YieldPeriod == 50

\* len(f"Day {day}: {script} {hashtags}\n"): 96 characters and the day, three times
text_chunk_len(row) == 96 + 3 * (IF row.day >= 10 THEN 2 ELSE 1)

\* if len(text_chunk) >= CHUNK_SIZE or chunk_count % 50 == 0
text_yields(i, chunk_count, length, chunk_size) ==
    length >= chunk_size \/ chunk_count % YieldPeriod = 0

TextInit ==
    /\ \E size \in ChunkSizeInputs :
         stream = [NoStream EXCEPT !.route = "stream", !.pc = "rows", !.chunk_size = size]
    /\ loop = NoLoop
    /\ call_log = <<>>
    /\ GovIdle
    /\ PureIdle
    /\ GenIdle
    /\ BatchIdle
    /\ LateIdle

\* one iteration of generate_text_stream; results holds the ids of the rows yielded
TextRow ==
    /\ stream.route = "stream" /\ stream.pc = "rows"
    /\ stream.i < NDJSON_ROWS
    /\ LET row == content_row(stream.i) IN
       stream' =
         IF text_yields(stream.i, stream.chunk_count, text_chunk_len(row), stream.chunk_size)
         THEN [stream EXCEPT !.results = Append(@, row.id), !.chunk_count = @ + 1, !.i = @ + 1]
         ELSE [stream EXCEPT !.i = @ + 1]

\* the generator is exhausted: the response body ends
TextEnd ==
    /\ stream.route = "stream" /\ stream.pc = "rows"
    /\ stream.i >= NDJSON_ROWS
    /\ stream' = [stream EXCEPT !.pc = "done", !.status = 200]

otherThanStream == <<govVars, pureVars, genVars, batchVars, lateVars, loopVars, logVars>>

TextNext ==
    \/ TextRow /\ UNCHANGED otherThanStream
    \/ TextEnd /\ UNCHANGED otherThanStream

SpecText == TextInit /\ [][TextNext]_vars

\* C26: the /stream text generator yields a chunk at least once in every 50
\* consecutive content rows (and for every row whose text reaches CHUNK_SIZE),
\* so its chunks are spread over the whole row range, not only the first row.
C26_YieldsEveryFiftyRows ==
    stream.route = "stream" =>
        /\ \A first \in 1 .. NDJSON_ROWS :
             first + YieldPeriod - 1 <= stream.i =>
                 \E k \in 1 .. Len(stream.results) :
                     stream.results[k] \in first .. (first + YieldPeriod - 1)
        /\ \A id \in 1 .. stream.i :
             text_chunk_len(content_row(id - 1)) >= stream.chunk_size =>
                 \E k \in 1 .. Len(stream.results) : stream.results[k] = id

---------------------------------------------------------------------------
\* /events

\* "while counter < 100"
MaxSseEvents == 100

\* "if counter % 10 == 0"
HeartbeatEvery == 10

\* a heartbeat one event late
Mut_heartbeat_due(counter) == counter % HeartbeatEvery = 1

heartbeat_due(counter) == counter % HeartbeatEvery = 0

SseEvent(type, n) == [type |-> type, n |-> n]

EventsInit ==
    /\ stream = [NoStream EXCEPT !.route = "events", !.pc = "connect"]
    /\ loop = NoLoop
    /\ call_log = <<>>
    /\ GovIdle
    /\ PureIdle
    /\ GenIdle
    /\ BatchIdle
    /\ LateIdle

\* yield the connection event
SseConnect ==
    /\ stream.route = "events" /\ stream.pc = "connect"
    /\ stream' = [stream EXCEPT !.pc = "loop", !.i = 0,
                                !.results = Append(@, SseEvent("connection", 0))]

\* counter += 1; yield the counter event
SseCounter ==
    /\ stream.route = "events" /\ stream.pc = "loop"
    /\ stream.i < MaxSseEvents
    /\ stream' = [stream EXCEPT !.i = @ + 1,
                                !.results = Append(@, SseEvent("counter", stream.i + 1)),
                                !.pc = IF heartbeat_due(stream.i + 1) THEN "heartbeat"
                                       ELSE "loop"]

\* yield the heartbeat comment; time.sleep
SseHeartbeat ==
    /\ stream.route = "events" /\ stream.pc = "heartbeat"
    /\ stream' = [stream EXCEPT !.pc = "loop",
                                !.results = Append(@, SseEvent("heartbeat", stream.i))]

\* after the loop: yield the completion event; the generator returns
SseComplete ==
    /\ stream.route = "events" /\ stream.pc = "loop"
    /\ stream.i >= MaxSseEvents
    /\ stream' = [stream EXCEPT !.pc = "done", !.status = 200,
                                !.results = Append(@, SseEvent("complete", stream.i))]

EventsNext ==
    \/ SseConnect /\ UNCHANGED otherThanStream
    \/ SseCounter /\ UNCHANGED otherThanStream
    \/ SseHeartbeat /\ UNCHANGED otherThanStream
    \/ SseComplete /\ UNCHANGED otherThanStream

SpecEvents == EventsInit /\ [][EventsNext]_vars

\* the k-th of the 112 events the claim lists: the connection event, ten
\* groups of ten counter events and a heartbeat, the complete event
ExpectedEvent(k) ==
    IF k = 1 THEN SseEvent("connection", 0)
    ELSE IF k = 112 THEN SseEvent("complete", 100)
    ELSE LET group == (k - 2) \div 11
             place == (k - 2) % 11
         IN IF place < 10 THEN SseEvent("counter", 10 * group + place + 1)
            ELSE SseEvent("heartbeat", 10 * (group + 1))

MaxQueueItems == 1

\* workers that call process_queue_item
MaxQueueWorkers == 2

QueueIds == 1 .. MaxQueueItems

QueueWorkers == 1 .. MaxQueueWorkers

\* a row as queue_large_request stores it; written: the status values
\* committed so far, returned_true: the calls that returned True for it
NewQueueItem == [status |-> "pending", written |-> <<"pending">>, returned_true |-> 0]

\* a worker's call: position, argument, the return value
NoQueueCall == [pc |-> "idle", queue_id |-> 0, result |-> "none"]

QueueInit ==
    /\ queue = [items |-> [id \in QueueIds |-> NewQueueItem],
                calls |-> [w \in QueueWorkers |-> NoQueueCall]]
    /\ chunking = NoChunk
    /\ wrap = NoWrap
    /\ job = NoJob
    /\ usage = NoUsage
    /\ loop = NoLoop
    /\ call_log = <<>>
    /\ stream = NoStream
    /\ GovIdle
    /\ PureIdle
    /\ GenIdle
    /\ BatchIdle

\* queue_item = GenerationQueue.query.get(queue_id) and the test of its status
QueueGet(w, id) ==
    /\ queue.calls[w].pc = "idle"
    /\ queue' =
         IF id \notin QueueIds \/ queue.items[id].status # "pending"
         THEN [queue EXCEPT !.calls[w] = [pc |-> "returned", queue_id |-> id,
                                          result |-> "False"]]
         ELSE [queue EXCEPT !.calls[w] = [pc |-> "got", queue_id |-> id, result |-> "none"]]

\* queue_item.status = 'processing'; db.session.commit()
QueueStart(w) ==
    /\ queue.calls[w].pc = "got"
    /\ LET id == queue.calls[w].queue_id IN
       queue' = [queue EXCEPT !.items[id].status = "processing",
                              !.items[id].written = Append(@, "processing"),
                              !.calls[w].pc = "processing"]

\* the try block: the work, then 'completed' and return True, or the except
\* clause: 'failed' and return False
QueueFinish(w, raised) ==
    /\ queue.calls[w].pc = "processing"
    /\ LET id == queue.calls[w].queue_id
           status == IF raised THEN "failed" ELSE "completed"
       IN queue' = [queue EXCEPT
                      !.items[id].status = status,
                      !.items[id].written = Append(@, status),
                      !.items[id].returned_true = IF raised THEN @ ELSE @ + 1,
                      !.calls[w].pc = "returned",
                      !.calls[w].result = IF raised THEN "False" ELSE "True"]

\* the worker is free for its next call
QueueAgain(w) ==
    /\ queue.calls[w].pc = "returned"
    /\ queue' = [queue EXCEPT !.calls[w] = NoQueueCall]

otherThanQueue ==
    <<govVars, pureVars, genVars, batchVars, loopVars, logVars, streamVars, chunking, wrap,
      job, usage>>

QueueNext ==
    \/ \E w \in QueueWorkers, id \in 1 .. (MaxQueueItems + 1) :
          QueueGet(w, id) /\ UNCHANGED otherThanQueue
    \/ \E w \in QueueWorkers : QueueStart(w) /\ UNCHANGED otherThanQueue
    \/ \E w \in QueueWorkers, raised \in BOOLEAN :
          QueueFinish(w, raised) /\ UNCHANGED otherThanQueue
    \/ \E w \in QueueWorkers : QueueAgain(w) /\ UNCHANGED otherThanQueue

SpecQueue == QueueInit /\ [][QueueNext]_vars

\* C28: each GenerationQueue item is processed at most once: its status only
\* moves pending -> processing -> completed or failed, and when two
\* process_queue_item calls for the same id interleave at most one of them
\* moves the item to processing and returns True.
C28_ProcessedAtMostOnce ==
    \A id \in DOMAIN queue.items :
        LET written == queue.items[id].written IN
        /\ Len(written) <= 3
        /\ Len(written) >= 2 => written[2] = "processing"
        /\ Len(written) = 3 => written[3] \in {"completed", "failed"}
        /\ queue.items[id].returned_true <= 1

(***************************************************************************)
(* Part XIV.  /api/v1/batch/large with more than 100 businesses: the       *)
(* BatchRequest row, its background thread and /api/v1/batch/status.       *)
(***************************************************************************)

\* "if len(businesses) > 100"
BackgroundAbove == 100

\* "if len(businesses) > 10000"
MaxLargeBatch == 10000

\* business counts that take the background branch
JobBusinessCounts == {BackgroundAbove + 1, 150, MaxLargeBatch}

\* calls of /api/v1/batch/status/<id> followed for one job
MaxStatusChecks == 3

\* process_in_background is the target of a bare threading.Thread: it runs
\* with no application context pushed
BackgroundHasAppContext == FALSE

\* db.session.commit() of the object's pending status: the session is scoped
\* to the application context, and outside of one db.session raises
\* RuntimeError before anything is written
db_commit(has_app_context, row, obj) ==
    IF has_app_context THEN [raised |-> FALSE, row |-> obj]
    ELSE [raised |-> TRUE, row |-> row]

\* the handler: the row is added with status 'processing' and committed, the
\* thread is started, the response carries status 'processing'
JobInit ==
    /\ \E n \in JobBusinessCounts, d \in BatchDays :
         job = [NoJob EXCEPT !.pc = "started", !.total_businesses = n, !.days = d,
                             !.row = "processing", !.obj = "processing"]
    /\ chunking = NoChunk
    /\ wrap = NoWrap
    /\ queue = NoQueue
    /\ usage = NoUsage
    /\ loop = NoLoop
    /\ call_log = <<>>
    /\ stream = NoStream
    /\ GovIdle
    /\ PureIdle
    /\ GenIdle
    /\ BatchIdle

\* results = safe_batch_generation(businesses, days, max_chunk_size=3)
JobGenerate(raises) ==
    /\ job.pc = "started"
    /\ job' = [job EXCEPT !.pc = IF raises THEN "except" ELSE "returned"]

\* batch_request.status = 'completed' ...; db.session.commit()
JobComplete ==
    /\ job.pc = "returned"
    /\ LET c == db_commit(BackgroundHasAppContext, job.row, "completed") IN
       job' = [job EXCEPT !.obj = "completed", !.row = c.row,
                          !.pc = IF c.raised THEN "except" ELSE "ended"]

\* except Exception: batch_request.status = 'failed' ...; db.session.commit();
\* an exception raised here ends the thread
JobFail ==
    /\ job.pc = "except"
    /\ LET c == db_commit(BackgroundHasAppContext, job.row, "failed") IN
       job' = [job EXCEPT !.obj = "failed", !.row = c.row, !.pc = "ended"]

\* check_batch_status: BatchRequest.query.get(batch_id).status
JobStatus ==
    /\ job.pc # "none"
    /\ Len(job.reported) < MaxStatusChecks
    /\ job' = [job EXCEPT !.reported = Append(@, [status |-> job.row,
                                                  thread_ended |-> job.pc = "ended"])]

otherThanJob ==
    <<govVars, pureVars, genVars, batchVars, loopVars, logVars, streamVars, chunking, wrap,
      queue, usage>>

JobNext ==
    \/ \E raises \in BOOLEAN : JobGenerate(raises) /\ UNCHANGED otherThanJob
    \/ JobComplete /\ UNCHANGED otherThanJob
    \/ JobFail /\ UNCHANGED otherThanJob
    \/ JobStatus /\ UNCHANGED otherThanJob

SpecJob == JobInit /\ [][JobNext]_vars

\* C29: every BatchRequest that /api/v1/batch/large creates with status
\* 'processing' reaches status 'completed' or 'failed' once its background
\* thread has run, whether safe_batch_generation returns or raises, and
\* /api/v1/batch/status never reports a finished job as 'processing'.
C29_FinishedJobNotProcessing ==
    /\ job.pc = "ended" => job.row \in {"completed", "failed"}
    /\ \A k \in 1 .. Len(job.reported) :
         job.reported[k].thread_ended => job.reported[k].status # "processing"

(***************************************************************************)
(* Part XV.  /api/v1/generate/single: the track_api_usage decorator and    *)
(* the rate limit the handler reads from the rows it leaves.               *)
(***************************************************************************)

\* rate_limit_check(user_id, requests_per_hour=100)
requests_per_hour == 100

\* the users that call the API: data.get('user_id', 1)
MaxApiUsers == 2

ApiUsers == 1 .. MaxApiUsers

\* None, the value of a user_id that was never set
None == 0

\* calls followed per user and hour: one past the limit
MaxApiCalls == requests_per_hour + 1

\* getattr(g, 'user_id', None): no code of the repository assigns g.user_id
g_user_id(user_id) == None

\* db.session.add(usage); db.session.commit(): api_usage.user_id is declared
\* nullable=False, so a row without a user raises, is logged and rolled back
add_usage(rows, user_id) ==
    IF user_id = None THEN rows ELSE [rows EXCEPT ![user_id] = @ + 1]

\* EnterpriseFeatures.rate_limit_check
rate_limit_check(rows, user_id) == rows[user_id] < requests_per_hour

\* the response of generate_single_calendar: <<status, error, posts_generated>>
single_response(rows, user_id, fields_ok, quota_ok, days) ==
    IF ~fields_ok THEN <<400, "Missing required fields", 0>>
    ELSE IF ~quota_ok THEN <<429, "API quota exceeded", 0>>
    ELSE IF ~rate_limit_check(rows, user_id) THEN <<429, "Rate limit exceeded", 0>>
    ELSE <<200, "none", days>>

UsageInit ==
    /\ usage = [NoUsage EXCEPT !.rows = [u \in {None} \cup ApiUsers |-> 0],
                               !.calls = [u \in ApiUsers |-> 0]]
    /\ chunking = NoChunk
    /\ wrap = NoWrap
    /\ queue = NoQueue
    /\ job = NoJob
    /\ loop = NoLoop
    /\ call_log = <<>>
    /\ stream = NoStream
    /\ GovIdle
    /\ PureIdle
    /\ GenIdle
    /\ BatchIdle

\* one POST /api/v1/generate/single: the handler, then the decorator's finally
SingleCall(user_id, fields_ok, quota_ok) ==
    /\ usage.calls[user_id] < MaxApiCalls
    /\ LET r == single_response(usage.rows, user_id, fields_ok, quota_ok, 1) IN
       usage' = [usage EXCEPT
                   !.rows = add_usage(@, g_user_id(user_id)),
                   !.calls[user_id] = @ + 1,
                   !.last = [user_id |-> user_id, calls_before |-> usage.calls[user_id],
                             status |-> r[1], error |-> r[2], posts_generated |-> r[3]]]

\* an hour passes: every row is older than one_hour_ago
HourPasses ==
    /\ \E u \in ApiUsers : usage.calls[u] > 0
    /\ usage' = [usage EXCEPT !.rows = [u \in DOMAIN usage.rows |-> 0],
                              !.calls = [u \in ApiUsers |-> 0]]

otherThanUsage ==
    <<govVars, pureVars, genVars, batchVars, loopVars, logVars, streamVars, chunking, wrap,
      queue, job>>

UsageNext ==
    \/ \E u \in ApiUsers, fields_ok \in BOOLEAN, quota_ok \in BOOLEAN :
          SingleCall(u, fields_ok, quota_ok) /\ UNCHANGED otherThanUsage
    \/ HourPasses /\ UNCHANGED otherThanUsage

SpecUsage == UsageInit /\ [][UsageNext]_vars

\* C30: every call of /api/v1/generate/single is recorded as one APIUsage row
\* for the requesting user, and once that user has 100 recorded requests
\* within the last hour the next call is rejected with 429 'Rate limit
\* exceeded' and generates no posts.
C30_CallsRecordedAndLimited ==
    /\ \A u \in DOMAIN usage.calls : usage.rows[u] = usage.calls[u]
    /\ (usage.last.status = 200) => usage.last.calls_before < requests_per_hour

====
